---- MODULE Spec2Model ----
(***************************************************************************)
(* Model of the ship-manual scanner: the title cleaner, name identifier    *)
(* and document-type classifier of extraction_utils.py and the scan loop   *)
(* of app.py.                                                              *)
(*                                                                         *)
(* A Python string is a sequence of characters; a character is a one-      *)
(* character TLA+ string ("\n" is the newline, "NUL" the \x00 character,   *)
(* "e'" the non-ASCII letter e-acute).  A regular expression is a sequence *)
(* of nodes interpreted by the backtracking matcher M below, which tries   *)
(* the alternatives in the priority order of Python's re module.  The      *)
(* functions from strings to strings are TLA+ functions on Str, applied    *)
(* as f[s], so that a pipeline g[f[s]] is evaluated innermost first.       *)
(***************************************************************************)
EXTENDS Integers, Sequences, FiniteSets, TLC

(***************************************************************************)
(* Characters                                                              *)
(***************************************************************************)
UpperSeq == <<"A","B","C","D","E","F","G","H","I","J","K","L","M",
              "N","O","P","Q","R","S","T","U","V","W","X","Y","Z">>
LowerSeq == <<"a","b","c","d","e","f","g","h","i","j","k","l","m",
              "n","o","p","q","r","s","t","u","v","w","x","y","z">>
Range(f) == {f[i] : i \in DOMAIN f}
\* [A-Z], [a-z], [0-9]
AsciiUpper == Range(UpperSeq)
AsciiLower == Range(LowerSeq)
DigitSet == {"0","1","2","3","4","5","6","7","8","9"}
AsciiAlpha == AsciiUpper \cup AsciiLower
\* the characters outside ASCII: e-acute, E-acute, the degree sign and the
\* right single quotation mark
NonAscii == {"e'", "E'", "deg", "rsq"}
\* str.isalpha / str.isupper / str.islower of one character
AlphaSet == AsciiAlpha \cup {"e'", "E'"}
UpperSet == AsciiUpper \cup {"E'"}
LowerSet == AsciiLower \cup {"e'"}
\* \s of the re module, for the characters of the model
SpaceSet == {" ", "\n", "\t"}
\* \w of the re module
WordSet == AlphaSet \cup DigitSet \cup {"_"}
ToUpperMap ==
    [c \in LowerSet |->
       IF c = "e'" THEN "E'" ELSE UpperSeq[CHOOSE i \in 1..26 : LowerSeq[i] = c]]
ToLowerMap ==
    [c \in UpperSet |->
       IF c = "E'" THEN "e'" ELSE LowerSeq[CHOOSE i \in 1..26 : UpperSeq[i] = c]]
UpC(c) == IF c \in LowerSet THEN ToUpperMap[c] ELSE c
LoC(c) == IF c \in UpperSet THEN ToLowerMap[c] ELSE c
\* the value None
None == <<"None">>
\* not s, for s a string or None
Falsy(s) == s = None \/ s = <<>>

(***************************************************************************)
(* str methods                                                             *)
(***************************************************************************)
Str == Seq(STRING)
SetMin(S) == CHOOSE x \in S : \A y \in S : x <= y
SetMax(S) == CHOOSE x \in S : \A y \in S : x >= y
upper[s \in Str] == [i \in 1..Len(s) |-> UpC(s[i])]
lower[s \in Str] == [i \in 1..Len(s) |-> LoC(s[i])]
\* s[i:] with a 1-based first index
From(s, i) == IF i > Len(s) THEN <<>> ELSE SubSeq(s, i, Len(s))
\* s[:i-1] with a 1-based end index
Before(s, i) == IF i <= 1 THEN <<>> ELSE SubSeq(s, 1, i - 1)
\* s.strip()
strip[s \in Str] ==
    LET keep == {i \in 1..Len(s) : s[i] \notin SpaceSet}
    IN IF keep = {} THEN <<>> ELSE SubSeq(s, SetMin(keep), SetMax(keep))
startswith(s, p) == Len(s) >= Len(p) /\ SubSeq(s, 1, Len(p)) = p
MatchesAt(s, k, i) ==
    i + Len(k) - 1 <= Len(s) /\ \A j \in 1..Len(k) : s[i + j - 1] = k[j]
\* k in s
Contains(s, k) == \E i \in 1..(Len(s) - Len(k) + 1) : MatchesAt(s, k, i)
\* s.find(k), 1-based; 0 when k does not occur
find(s, k) ==
    LET at == {i \in 1..(Len(s) - Len(k) + 1) : MatchesAt(s, k, i)}
    IN IF at = {} THEN 0 ELSE SetMin(at)
isalpha(s) == Len(s) > 0 /\ \A i \in 1..Len(s) : s[i] \in AlphaSet
isupper(s) ==
    (\E i \in 1..Len(s) : s[i] \in UpperSet) /\ (\A i \in 1..Len(s) : s[i] \notin LowerSet)
capitalize(s) ==
    [i \in 1..Len(s) |-> IF i = 1 THEN UpC(s[i]) ELSE LoC(s[i])]
\* s.split(): the maximal runs of non-whitespace characters, in order
split[s \in Str] ==
    LET starts == {i \in 1..Len(s) : s[i] \notin SpaceSet /\ (i = 1 \/ s[i - 1] \in SpaceSet)}
        ends == {i \in 1..Len(s) :
                   s[i] \notin SpaceSet /\ (i = Len(s) \/ s[i + 1] \in SpaceSet)}
        start(n) == CHOOSE a \in starts : Cardinality({b \in starts : b <= a}) = n
    IN [n \in 1..Cardinality(starts) |->
          SubSeq(s, start(n), SetMin({e \in ends : e >= start(n)}))]
\* sep.join(ws), the list halved at each step
RECURSIVE join(_, _)
join(sep, ws) ==
    IF Len(ws) = 0 THEN <<>>
    ELSE IF Len(ws) = 1 THEN ws[1]
    ELSE join(sep, SubSeq(ws, 1, Len(ws) \div 2)) \o sep
         \o join(sep, SubSeq(ws, Len(ws) \div 2 + 1, Len(ws)))
SP == <<" ">>

(***************************************************************************)
(* Regular expressions.  A pattern is a sequence of nodes:                 *)
(*   c    one character of a set (neg: of its complement)                  *)
(*   lit  a literal string (ci: under re.IGNORECASE, w in upper case)      *)
(*   b    \b     bos  ^     eos  $                                         *)
(*   alt  the first alternative, in order, with which the rest matches     *)
(*   rep  greedy repetition of a pattern, min..max times (max -1: no max)  *)
(***************************************************************************)
Cls(S) == [k |-> "c", set |-> S, neg |-> FALSE]
NotCls(S) == [k |-> "c", set |-> S, neg |-> TRUE]
\* a literal character / a literal character under re.IGNORECASE
Ch(c) == Cls({c})
ChI(c) == Cls({UpC(c), LoC(c)})
\* a literal string / a literal string under re.IGNORECASE
Lit(w) == <<[k |-> "lit", w |-> w, ci |-> FALSE]>>
LitI(w) == <<[k |-> "lit", w |-> upper[w], ci |-> TRUE]>>
\* the dot: any character but the newline
Dot == NotCls({"\n"})
WB == [k |-> "b"]
Bos == [k |-> "bos"]
Eos == [k |-> "eos"]
Alt(as) == [k |-> "alt", alts |-> as]
Rep(p, lo, hi) == [k |-> "rep", body |-> p, min |-> lo, max |-> hi]
Star(p) == Rep(p, 0, -1)
Plus(p) == Rep(p, 1, -1)
Opt(p) == Rep(p, 0, 1)
WS == Cls(SpaceSet)

IsWordAt(s, i) == i >= 1 /\ i <= Len(s) /\ s[i] \in WordSet
InCls(h, c) == (c \in h.set) # h.neg
LitAt(h, s, i) ==
    i + Len(h.w) - 1 <= Len(s)
    /\ \A j \in 1..Len(h.w) : (IF h.ci THEN UpC(s[i + j - 1]) ELSE s[i + j - 1]) = h.w[j]
\* the number of characters of the class h from position i on, at most max
RunLen(h, s, i, max) ==
    LET room == Len(s) - i + 1
        lim == IF max >= 0 /\ max < room THEN max ELSE room
        stops == {n \in 1..lim : ~InCls(h, s[i + n - 1])}
    IN IF stops = {} THEN lim ELSE SetMin(stops) - 1
\* one repetition fewer of the rep node h
Less(h) == Rep(h.body, IF h.min > 0 THEN h.min - 1 ELSE 0,
               IF h.max > 0 THEN h.max - 1 ELSE h.max)
\* the end position (index of the first character after the match) of the
\* first match of pattern rs at position i of s in backtracking order; 0: none
RECURSIVE M(_, _, _)
M(rs, s, i) ==
    CASE Len(rs) = 0 -> i
      [] rs[1].k = "c" ->
           IF i <= Len(s) /\ InCls(rs[1], s[i]) THEN M(Tail(rs), s, i + 1) ELSE 0
      [] rs[1].k = "lit" ->
           IF LitAt(rs[1], s, i) THEN M(Tail(rs), s, i + Len(rs[1].w)) ELSE 0
      [] rs[1].k = "b" ->
           IF IsWordAt(s, i - 1) # IsWordAt(s, i) THEN M(Tail(rs), s, i) ELSE 0
      [] rs[1].k = "bos" -> IF i = 1 THEN M(Tail(rs), s, i) ELSE 0
      [] rs[1].k = "eos" ->
           IF i = Len(s) + 1 \/ (i = Len(s) /\ s[i] = "\n") THEN M(Tail(rs), s, i) ELSE 0
      [] rs[1].k = "alt" ->
           \* the first alternative with which the rest matches
           LET ok == {j \in 1..Len(rs[1].alts) : M(rs[1].alts[j] \o Tail(rs), s, i) # 0}
           IN IF ok = {} THEN 0 ELSE M(rs[1].alts[SetMin(ok)] \o Tail(rs), s, i)
      [] rs[1].k = "rep" /\ Len(rs[1].body) = 1 /\ rs[1].body[1].k = "c" ->
           \* a repeated character class: the longest run of it after which
           \* the rest matches
           LET ok == {n \in rs[1].min..RunLen(rs[1].body[1], s, i, rs[1].max) :
                        M(Tail(rs), s, i + n) # 0}
           IN IF ok = {} THEN 0 ELSE M(Tail(rs), s, i + SetMax(ok))
      [] rs[1].k = "rep" ->
           LET more == IF rs[1].max = 0 THEN 0
                       ELSE M(rs[1].body \o <<Less(rs[1])>> \o Tail(rs), s, i)
           IN IF more # 0 THEN more
              ELSE IF rs[1].min = 0 THEN M(Tail(rs), s, i) ELSE 0

\* the least position from which on pattern p matches in s, 0 when none
FirstMatch(p, s, from) ==
    LET hits == {i \in from..(Len(s) + 1) : M(p, s, i) # 0}
    IN IF hits = {} THEN 0 ELSE SetMin(hits)
\* re.search(p, s) finds a match
Found(p, s) == FirstMatch(p, s, 1) # 0
\* re.search(p, s): <<start, end>> of the leftmost match, <<0, 0>> when none
search(p, s) ==
    LET i == FirstMatch(p, s, 1) IN IF i = 0 THEN <<0, 0>> ELSE <<i, M(p, s, i)>>
\* re.sub(p, repl, .) from position i on: every leftmost non-overlapping
\* match replaced by repl
RECURSIVE SubFrom(_, _, _, _)
SubFrom(p, repl, s, i) ==
    LET j == FirstMatch(p, s, i)
        e == M(p, s, j)
    IN IF j = 0 THEN From(s, i)
       ELSE SubSeq(s, i, j - 1) \o repl
            \o (IF e > j THEN SubFrom(p, repl, s, e)
                ELSE IF j <= Len(s) THEN <<s[j]>> \o SubFrom(p, repl, s, j + 1)
                ELSE <<>>)
\* re.sub(p, repl, s) is sub(p, repl)[s]
sub(p, repl) == [s \in Str |-> SubFrom(p, repl, s, 1)]
\* a sequence of assignments s = re.sub(pattern, repl, s), one for each rule
\* <<pattern, repl>>, from rule n on
RECURSIVE SubEach(_, _)
SubEach(rules, n) ==
    [s \in Str |-> IF n > Len(rules) THEN s
                   ELSE SubEach(rules, n + 1)[sub(rules[n][1], rules[n][2])[s]]]
\* re.fullmatch(p, s)
fullmatch(p, s) == M(p \o <<Eos>>, s, 1) = Len(s) + 1

(***************************************************************************)
(* Tables of extraction_utils.py                                           *)
(***************************************************************************)
SYSTEM_KEYWORDS == <<
    <<"A","R","R","A","N","G","E","M","E","N","T">>, <<"A","R","R","'","T">>, <<"A","R","R"," ","T">>, <<"A","R","R","A","N","G","M","E","N","T">>,
    <<"E","/","R">>, <<"E","-","R">>, <<"E"," ","R">>,
    <<"W","O","R","K"," ","S","H","O","P">>, <<"W","O","R","K","S","H","O","P">>, <<"S","T","O","R","E">>,
    <<"S","P","A","R","E"," ","P","A","R","T","S">>, <<"T","O","O","L","S"," ","L","I","S","T">>, <<"S","P","A","R","E"," ","P","A","R","T","S"," ","A","N","D"," ","T","O","O","L","S"," ","L","I","S","T">>, <<"S","P","A","R","E"," ","P","A","R","T","S"," ","&"," ","T","O","O","L","S"," ","L","I","S","T">>,
    <<"M","A","I","N"," ","E","N","G","I","N","E">>, <<"A","U","X">>, <<"A","U","X","."," ","M","A","C","H","I","N","E","R","Y">>, <<"A","U","X"," ","M","A","C","H","I","N","E","R","Y">>,
    <<"V","A","L","V","E"," ","L","I","S","T">>, <<"V","/","V"," ","L","I","S","T">>,
    <<"I","C","C","P">>, <<"I",".","C",".","C",".","P",".">>,
    <<"P","A","I","N","T","I","N","G"," ","S","P","E","C","I","F","I","C","A","T","I","O","N">>,
    <<"D","O","C","K","I","N","G"," ","A","N","A","L","Y","S","I","S">>, <<"D","O","C","K","I","N","G"," ","P","L","A","N">>,
    <<"A","C","C","O","M","M","O","D","A","T","I","O","N">>, <<"D","E","C","K"," ","M","A","C","H","I","N","E","R","Y">>,
    <<"S","I","D","E"," ","T","H","R","U","S","T","E","R">>, <<"S","T","E","R","N"," ","T","H","R","U","S","T","E","R">>, <<"B","O","W"," ","T","H","R","U","S","T","E","R">>,
    <<"F","I","R","E"," ","F","I","G","H","T","I","N","G">>, <<"F","I","R","E"," ","A","P","P","L","I","A","N","C","E">>,
    <<"A","I","R"," ","C","O","N","D","I","T","I","O","N","I","N","G"," ","P","L","A","N","T">>,
    <<"P","R","O","V","I","S","I","O","N"," ","R","E","F","R","I","G","E","R","A","T","I","N","G"," ","P","L","A","N","T">>,
    <<"G","A","L","L","E","Y"," ","A","N","D"," ","L","A","U","N","D","R","Y"," ","E","Q","U","I","P","M","E","N","T">>,
    <<"S","E","W","A","G","E"," ","T","R","E","A","T","M","E","N","T"," ","P","L","A","N","T">>,
    <<"M","A","C","H","I","N","E","R","Y"," ","A","R","R","A","N","G","E","M","E","N","T">>,
    <<"E","Q","U","I","P","M","E","N","T"," ","L","I","S","T">>,
    <<"F","L","O","W","M","E","T","E","R">>, <<"F","L","O","W"," ","M","E","T","E","R">>,
    <<"P","L","A","T","E"," ","T","Y","P","E"," ","C","O","O","L","E","R">>,
    <<"C","E","N","T","R","I","F","U","G","A","L"," ","P","U","M","P">>,
    <<"M",".","G",".","P",".","S">>, <<"M","."," ","G","."," ","P","."," ","S">>, <<"M","A","R","I","N","E"," ","G","R","O","W","T","H"," ","P","R","E","V","E","N","T","I","O","N"," ","S","Y","S","T","E","M">>,
    <<"S","T","E","E","R","I","N","G"," ","G","E","A","R"," ","R","O","O","M">>, <<"S","T","E","E","R","I","N","G"," ","G","E","A","R">>, <<"S","T","E","E","R","I"," ","N","G"," ","G","E","A","R">>,
    <<"R","U","D","D","E","R">>, <<"S","H","A","F","T">>, <<"F","O","U","N","D","A","T","I","O","N">>, <<"F","R","A","M","E">>, <<"S","T","O","C","K">>, <<"C","O","N","S","T","R","U","C","T","I","O","N">>, <<"S","T","E","R","N">>,
    <<"H","U","L","L">>, <<"S","H","E","L","L">>, <<"E","X","P","A","N","S","I","O","N">>, <<"B","E","A","R","I","N","G">>,
    <<"N","A","M","E">>, <<"C","A","U","T","I","O","N">>, <<"P","L","A","T","E">>, <<"N","A","M","E"," ","&"," ","C","A","U","T","I","O","N"," ","P","L","A","T","E">>, <<"N","A","M","E"," ","A","N","D"," ","C","A","U","T","I","O","N"," ","P","L","A","T","E">>,
    <<"I","N","S","T","A","L","L","A","T","I","O","N">>, <<"D","O","O","R"," ","P","L","A","N">>, <<"I","N","S","U","L","A","T","I","O","N"," ","P","L","A","N">>, <<"C","R","A","N","E">>, <<"L","I","F","T","I","N","G"," ","B","E","A","M">>,
    <<"V","/","D">>, <<"V","-","D">>, <<"V","E","N","D","O","R"," ","D","R","A","W","I","N","G">> >>

ANCHOR_WORDS == <<
    <<"V","/","D">>, <<"V","E","N","D","O","R">>, <<"D","R","A","W","I","N","G">>,
    <<"S","P","A","R","E">>, <<"T","O","O","L","S">>, <<"L","I","S","T">>,
    <<"A","R","R","A","N","G","E","M","E","N","T">>, <<"V","A","L","V","E">>, <<"E","Q","U","I","P","M","E","N","T">>,
    <<"N","A","M","E">>, <<"C","A","U","T","I","O","N">>, <<"P","L","A","T","E">>,
    <<"I","C","C","P">>, <<"P","A","I","N","T","I","N","G">>, <<"D","O","C","K","I","N","G">>,
    <<"F","L","O","W","M","E","T","E","R">>, <<"C","O","O","L","E","R">>, <<"P","U","M","P">>,
    <<"S","T","E","E","R","I","N","G">>, <<"R","U","D","D","E","R">>, <<"F","O","U","N","D","A","T","I","O","N">>, <<"C","O","N","S","T","R","U","C","T","I","O","N">>,
    <<"I","N","S","T","A","L","L","A","T","I","O","N">>, <<"D","O","O","R">>, <<"I","N","S","U","L","A","T","I","O","N">>, <<"C","R","A","N","E">>, <<"L","I","F","T","I","N","G">>,
    <<"A","I","R","-","C","O","N">>, <<"A","I","R","C","O","N">>, <<"P","R","O","V","I","S","I","O","N">>, <<"R","E","F","R","I","G","E","R","A","T","I","N","G">> >>

\* \.? and \s*
OptDot == Opt(<<Ch(".")>>)
WSs == Star(<<WS>>)
STAMP_REGEX == <<WB, Alt(<<
    LitI(<<"D","A","T","E">>), LitI(<<"R","E","V">>) \o <<OptDot>>, LitI(<<"D","E","S","C","R","I","P","T","I","O","N">>), LitI(<<"O","W","N">>),
    LitI(<<"C","H","K","D">>) \o <<OptDot>>, LitI(<<"A","P","P","D">>) \o <<OptDot>>, LitI(<<"D","W","N">>) \o <<OptDot>>,
    LitI(<<"C","H","K","D">>) \o <<WSs>> \o LitI(<<"B","Y">>), LitI(<<"A","P","P","D">>) \o <<WSs>> \o LitI(<<"B","Y">>),
    LitI(<<"D","W","N">>) \o <<WSs>> \o LitI(<<"B","Y">>),
    LitI(<<"C","H","K","O">>) \o <<OptDot, WSs>> \o LitI(<<"B","Y">>),
    LitI(<<"I","S","S","U","E","D">>) \o <<WSs>> \o LitI(<<"F","O","R">>), LitI(<<"P","L","A","N">>) \o <<WSs>> \o LitI(<<"H","I","S","T","O","R","Y">>),
    LitI(<<"S","U","B","M","I","T","T","E","D">>) \o <<WSs>> \o LitI(<<"T","O">>), LitI(<<"A","P","P","R","O","V","E","D">>) \o <<WSs>> \o LitI(<<"B","Y">>),
    LitI(<<"S","H","E","E","T">>) \o <<Opt(<<WSs>> \o LitI(<<"N","O">>))>>, LitI(<<"S","C","A","L","E">>),
    LitI(<<"P","R","O","J","E","C","T">>) \o <<WSs>> \o LitI(<<"N","O">>), LitI(<<"P","L","A","N">>) \o <<WSs>> \o LitI(<<"N","O">>),
    LitI(<<"D","W","G">>) \o <<WSs>> \o LitI(<<"N","O">>), LitI(<<"D","R","A","W","I","N","G">>) \o <<WSs>> \o LitI(<<"N","O">>),
    LitI(<<"D","E","P","T">>), LitI(<<"D","E","P","A","R","T","M","E","N","T">>), LitI(<<"D","S","M","E">>) >>), WB>>

\* the whitelist without MGPS
WhitelistWithoutMGPS == {<<"M","A","I","N">>, <<"A","U","X">>, <<"E","/","R">>, <<"I","C","C","P">>, <<"V","/","V">>, <<"V","/","D">>}
ALLCAPS_JUNK_WHITELIST == {<<"M","A","I","N">>, <<"A","U","X">>, <<"E","/","R">>, <<"I","C","C","P">>, <<"M","G","P","S">>, <<"V","/","V">>, <<"V","/","D">>}
VOWELS == {"A", "E", "I", "O", "U"}

(***************************************************************************)
(* normalize_text and the small predicates                                 *)
(***************************************************************************)
\* unicodedata.normalize("NFKD", .).encode("ascii", "ignore"): an accented
\* letter keeps its base letter, any other non-ASCII character is dropped
AsciiFold[s \in Str] ==
    LET folded == [i \in 1..Len(s) |->
                     CASE s[i] = "e'" -> "e"
                       [] s[i] = "E'" -> "E"
                       [] OTHER -> s[i]]
    IN SelectSeq(folded, LAMBDA c : c \notin NonAscii)
\* text.replace("\x00", " ")
ReplaceNul[s \in Str] == [i \in 1..Len(s) |-> IF s[i] = "NUL" THEN " " ELSE s[i]]
\* re.sub(r"\s+", " ", s).strip()
CollapseWS[s \in Str] == strip[sub(<<Plus(<<WS>>)>>, SP)[s]]
normalize_text[text \in Str] ==
    IF Falsy(text) THEN <<>> ELSE CollapseWS[ReplaceNul[AsciiFold[text]]]

\* letters / max(len(s), 1) as the fraction <<numerator, denominator>>
_alpha_ratio(s) ==
    IF Len(s) = 0 THEN <<0, 1>>
    ELSE <<Cardinality({i \in 1..Len(s) : s[i] \in AlphaSet}), Len(s)>>
\* ratio < pct / 100
RatioBelow(r, pct) == r[1] * 100 < pct * r[2]

_has_vowel(token) == \E i \in 1..Len(token) : UpC(token[i]) \in VOWELS

_looks_like_stamp_or_revision(line_upper) ==
    IF Len(line_upper) = 0 THEN FALSE
    ELSE IF Found(STAMP_REGEX, line_upper) THEN TRUE
    ELSE Contains(line_upper, <<"O","W","N"," ","C","H","K","D"," ","A","P","P","D">>) \/ Contains(line_upper, <<"D","A","T","E"," ","R","E","V">>)

(***************************************************************************)
(* _strip_stamp_fragments                                                  *)
(***************************************************************************)
\* [:\-]?
OptColonDash == Opt(<<Cls({":", "-"})>>)
StampRe1 == <<WB, Alt(<<LitI(<<"C","H","K","D">>), LitI(<<"A","P","P","D">>), LitI(<<"D","W","N">>), LitI(<<"C","H","K","O">>)>>), WB,
              WSs, OptDot, WSs, Opt(LitI(<<"B","Y">>)), WSs, OptColonDash, WSs,
              Rep(<<Cls(AsciiAlpha \cup {"."} \cup SpaceSet)>>, 0, 15)>>
StampRe2 == <<WB, Alt(<<LitI(<<"O","W","N">>), LitI(<<"R","E","V">>) \o <<OptDot>>, LitI(<<"D","A","T","E">>),
                        LitI(<<"D","E","S","C","R","I","P","T","I","O","N">>)>>), WB,
              WSs, OptColonDash, WSs,
              Rep(<<Cls(AsciiAlpha \cup DigitSet \cup {"."} \cup SpaceSet)>>, 0, 15)>>
StampRe3 == <<WB, Alt(<<LitI(<<"I","S","S","U","E","D">>) \o <<WSs>> \o LitI(<<"F","O","R">>),
                        LitI(<<"P","L","A","N">>) \o <<WSs>> \o LitI(<<"H","I","S","T","O","R","Y">>),
                        LitI(<<"S","U","B","M","I","T","T","E","D">>) \o <<WSs>> \o LitI(<<"T","O">>),
                        LitI(<<"A","P","P","R","O","V","E","D">>) \o <<WSs>> \o LitI(<<"B","Y">>)>>), WB, Star(<<Dot>>)>>
\* the substitutions of lines 120-123, in order
StampRules == <<
    <<StampRe1, SP>>, <<StampRe2, SP>>, <<StampRe3, SP>>, <<STAMP_REGEX, SP>> >>
_strip_stamp_fragments[s \in Str] ==
    IF Falsy(s) THEN <<>> ELSE CollapseWS[SubEach(StampRules, 1)[normalize_text[s]]]

(***************************************************************************)
(* _normalize_title_terms                                                  *)
(***************************************************************************)
\* (?i)\bV\s*[-./]?\s*D\s*(?:OF)?\b
VdRe1 == <<WB, ChI("V"), WSs, Opt(<<Cls({"-", ".", "/"})>>), WSs, ChI("D"), WSs,
           Opt(LitI(<<"O","F">>)), WB>>
\* (?i)\bV\s*/\s*D\b\s*OF\b
VdRe2 == <<WB, ChI("V"), WSs, Ch("/"), WSs, ChI("D"), WB, WSs>> \o LitI(<<"O","F">>) \o <<WB>>
ProvRe == <<WB>> \o LitI(<<"P","R","O","V">>) \o <<OptDot, WB>>
RefRe == <<WB>> \o LitI(<<"R","E","F">>) \o <<Opt(LitI(<<"E","R">>)), OptDot, WB>>
AirConRe == <<WB>> \o LitI(<<"A","I","R">>) \o <<Opt(<<Cls({"-"} \cup SpaceSet)>>)>> \o LitI(<<"C","O","N">>) \o <<WB>>
ArrRe1 == <<WB>> \o LitI(<<"A","R","R">>) \o <<Opt(<<Cls({"'", "rsq"})>>), WSs, ChI("T"), WB>>
ArrRe2 == <<WB>> \o LitI(<<"A","R","R">>) \o <<WSs, ChI("T"), WB>>
ArrRe3 == <<WB>> \o LitI(<<"A","R","R","A","N","G","M","E","N","T">>) \o <<WB>>
ErRe1 == <<WB, ChI("E"), WSs, Ch("-"), WSs, ChI("R"), WB>>
ErRe2 == <<WB, ChI("E"), Plus(<<WS>>), ChI("R"), WB>>
ErRe3 == <<WB, ChI("E"), WSs, Ch("/"), WSs, ChI("R"), WB>>
WorkShopRe == <<WB>> \o LitI(<<"W","O","R","K">>) \o <<Plus(<<WS>>)>> \o LitI(<<"S","H","O","P">>) \o <<WB>>
AmpRe == <<WSs, Ch("&"), WSs>>
\* the substitutions of lines 133-156, in order
TitleTermRules == <<
    <<VdRe1, <<"V","/","D"," ","o","f">>>>, <<VdRe2, <<"V","/","D"," ","o","f">>>>,
    <<ProvRe, <<"P","r","o","v","i","s","i","o","n">>>>, <<RefRe, <<"R","e","f","r","i","g","e","r","a","t","i","n","g">>>>,
    <<AirConRe, <<"A","i","r","-","C","o","n">>>>,
    <<ArrRe1, <<"A","R","R","A","N","G","E","M","E","N","T">>>>, <<ArrRe2, <<"A","R","R","A","N","G","E","M","E","N","T">>>>, <<ArrRe3, <<"A","R","R","A","N","G","E","M","E","N","T">>>>,
    <<ErRe1, <<"E","/","R">>>>, <<ErRe2, <<"E","/","R">>>>, <<ErRe3, <<"E","/","R">>>>,
    <<WorkShopRe, <<"W","O","R","K","S","H","O","P">>>>,
    <<AmpRe, <<" ","A","N","D"," ">>>> >>
_normalize_title_terms[s \in Str] ==
    IF Falsy(s) THEN <<>> ELSE CollapseWS[SubEach(TitleTermRules, 1)[normalize_text[s]]]

(***************************************************************************)
(* _slice_from_first_anchor                                                *)
(***************************************************************************)
\* the least s.find(w) over the anchor words that occur; 0 when none occurs
BestIdx(up) ==
    LET hits == {find(up, ANCHOR_WORDS[j]) : j \in 1..Len(ANCHOR_WORDS)} \ {0}
    IN IF hits = {} THEN 0 ELSE SetMin(hits)
\* lines 165-181, for s the canonicalized string of line 162
SliceCanon[s \in Str] ==
    IF startswith(upper[s], <<"V","/","D"," ","O","F">>) THEN s
    ELSE IF BestIdx(upper[s]) = 0 THEN s
    ELSE IF RatioBelow(_alpha_ratio(Before(s, BestIdx(upper[s]))), 40)
            \/ Len(Before(s, BestIdx(upper[s]))) > 12
           THEN strip[From(s, BestIdx(upper[s]))]
           ELSE s
_slice_from_first_anchor[s \in Str] ==
    IF Falsy(s) THEN <<>> ELSE SliceCanon[_normalize_title_terms[s]]

(***************************************************************************)
(* _drop_garbage_tokens                                                    *)
(***************************************************************************)
\* [\W_]{2,}   the quote class of line 209   [A-Za-z]{3,}   [:;]{1,}
NonWord2Re == <<Rep(<<NotCls(WordSet \ {"_"})>>, 2, -1)>>
DQuote == "\""
QuoteRe == <<Cls({DQuote, "'", ",", "bq"})>>
Letters3Re == <<Rep(<<Cls(AsciiAlpha)>>, 3, -1)>>
ColonRe == <<Rep(<<Cls({":", ";"})>>, 1, -1)>>
\* what the loop body does with one token: the token appended, <<>> when the
\* token is dropped (continue)
TokenOut(tok) ==
    LET t == strip[tok]
        tu == upper[strip[tok]]
    IN CASE tu \in {<<"A","N","D">>, <<"O","F">>, <<"F","O","R">>, <<"I","N">>} ->
              <<IF tu \in {<<"O","F">>, <<"F","O","R">>, <<"I","N">>} THEN lower[tu] ELSE <<"a","n","d">>>>
         [] tu \in {<<"E","/","R">>, <<"E","-","R">>} -> <<<<"E","/","R">>>>
         [] tu = <<"V","/","D">> -> <<<<"V","/","D">>>>
         [] fullmatch(NonWord2Re, t) -> <<>>
         [] Len(t) <= 2 /\ tu \notin {<<"E","R">>} -> <<>>
         [] Found(QuoteRe, t) /\ RatioBelow(_alpha_ratio(t), 70) -> <<>>
         [] isupper(t) /\ 3 <= Len(t) /\ Len(t) <= 4 /\ tu \notin ALLCAPS_JUNK_WHITELIST
            /\ tu \notin {<<"P","L","A","N">>, <<"R","O","O","M">>} -> <<>>
         [] Len(t) >= 3 /\ isalpha(t) /\ ~_has_vowel(t)
            /\ tu \notin ALLCAPS_JUNK_WHITELIST -> <<>>
         [] RatioBelow(_alpha_ratio(t), 25) /\ ~Found(Letters3Re, t) -> <<>>
         [] Found(ColonRe, t) /\ RatioBelow(_alpha_ratio(t), 45) -> <<>>
         [] OTHER -> <<t>>
\* the list tokens at the end of the loop of lines 187-226
KeptTokens(toks) ==
    LET outs == [j \in 1..Len(toks) |-> TokenOut(toks[j])]
        kept == SelectSeq(outs, LAMBDA o : Len(o) = 1)
    IN [j \in 1..Len(kept) |-> kept[j][1]]
_drop_garbage_tokens[s \in Str] ==
    IF Falsy(s) THEN <<>> ELSE CollapseWS[join(SP, KeptTokens(split[s]))]

(***************************************************************************)
(* _is_meaningful_title                                                    *)
(***************************************************************************)
ExtraTitleWords == <<<<"P","L","A","N">>, <<"L","I","S","T">>, <<"A","R","R","A","N","G","E","M","E","N","T">>, <<"I","N","S","T","A","L","L","A","T","I","O","N">>, <<"D","O","O","R">>, <<"I","N","S","U","L","A","T","I","O","N">>,
                     <<"C","R","A","N","E">>, <<"B","E","A","M">>, <<"S","Y","S","T","E","M">>, <<"P","L","A","N","T">>>>
ContainsAny(s, ks) == \E j \in 1..Len(ks) : Contains(s, ks[j])
_is_meaningful_title(s) ==
    IF Falsy(s) THEN FALSE
    ELSE IF Len(SelectSeq(split[s], LAMBDA w : Len(w) >= 3)) < 3
            /\ ~startswith(upper[s], <<"V","/","D"," ","O","F">>) THEN FALSE
    ELSE IF startswith(upper[s], <<"V","/","D"," ","O","F">>) THEN TRUE
    ELSE IF ContainsAny(upper[s], SYSTEM_KEYWORDS) THEN TRUE
    ELSE IF ContainsAny(upper[s], ExtraTitleWords) THEN TRUE
    ELSE FALSE

(***************************************************************************)
(* clean_manual_name                                                       *)
(***************************************************************************)
\* ^[^A-Za-z0-9/&()]+|[^A-Za-z0-9/&()]+$
EdgeKeep == AsciiAlpha \cup DigitSet \cup {"/", "&", "(", ")"}
EdgeRe == <<Alt(<< <<Bos, Plus(<<NotCls(EdgeKeep)>>)>>, <<Plus(<<NotCls(EdgeKeep)>>), Eos>> >>)>>
EdgeTrim[s \in Str] == strip[sub(EdgeRe, <<>>)[s]]
\* the prefixes with the vendor-drawing spellings that line 269 left out
PrefixesWithVD == <<
    <<"M","a","n","u","a","l"," ","f","o","r">>, <<"I","n","s","t","r","u","c","t","i","o","n"," ","f","o","r">>, <<"T","e","c","h","n","i","c","a","l"," ","M","a","n","u","a","l"," ","f","o","r">>,
    <<"T","i","t","l","e">>, <<"R","e","f">>, <<"T","e","c","h","n","i","c","a","l">>, <<"f","o","r">>,
    <<"I","n","s","t","r","u","c","t","i","o","n"," ","M","a","n","u","a","l"," ","-">>, <<"F","i","n","a","l"," ","&"," ","I","n","s","t","r","u","c","t","i","o","n"," ","M","a","n","u","a","l"," ","f","o","r">>,
    <<"F","i","n","a","l"," ","D","r","a","w","i","n","g","s">>, <<"I","n","s","t","r","u","c","t","i","o","n"," ","M","a","n","u","a","l">>, <<"T","e","c","h","n","i","c","a","l"," ","S","p","e","c","i","f","i","c","a","t","i","o","n"," ","o","f">>,
    <<"T","I","T","L","E",":">>, <<"T","I","T","L","E">>,
    <<"D","R","A","W","I","N","G"," ","O","F">>, <<"D","R","A","W"," ","I"," ","N","G"," ","O","F">>, <<"V","E","N","D","O","R"," ","D","W","G"," ","O","F">>, <<"V","E","N","D","O","R"," ","D","W","G">>,
    <<"D","W","G"," ","O","F">>, <<"V","E","N","D","O","R"," ","D","R","A","W","I","N","G"," ","O","F">>, <<"V","E","N","D","O","R"," ","D","R","A","W","I","N","G">>,
    <<"V","/","D">>, <<"V","-","D">>, <<"V"," ","D">>, <<"V",".","D">> >>
\* the prefixes of lines 261-270, in order
Prefixes == <<
    <<"M","a","n","u","a","l"," ","f","o","r">>, <<"I","n","s","t","r","u","c","t","i","o","n"," ","f","o","r">>, <<"T","e","c","h","n","i","c","a","l"," ","M","a","n","u","a","l"," ","f","o","r">>,
    <<"T","i","t","l","e">>, <<"R","e","f">>, <<"T","e","c","h","n","i","c","a","l">>, <<"f","o","r">>,
    <<"I","n","s","t","r","u","c","t","i","o","n"," ","M","a","n","u","a","l"," ","-">>, <<"F","i","n","a","l"," ","&"," ","I","n","s","t","r","u","c","t","i","o","n"," ","M","a","n","u","a","l"," ","f","o","r">>,
    <<"F","i","n","a","l"," ","D","r","a","w","i","n","g","s">>, <<"I","n","s","t","r","u","c","t","i","o","n"," ","M","a","n","u","a","l">>, <<"T","e","c","h","n","i","c","a","l"," ","S","p","e","c","i","f","i","c","a","t","i","o","n"," ","o","f">>,
    <<"T","I","T","L","E",":">>, <<"T","I","T","L","E">>,
    <<"D","R","A","W","I","N","G"," ","O","F">>, <<"D","R","A","W"," ","I"," ","N","G"," ","O","F">>, <<"V","E","N","D","O","R"," ","D","W","G"," ","O","F">>, <<"V","E","N","D","O","R"," ","D","W","G">>,
    <<"D","W","G"," ","O","F">>, <<"V","E","N","D","O","R"," ","D","R","A","W","I","N","G"," ","O","F">>, <<"V","E","N","D","O","R"," ","D","R","A","W","I","N","G">> >>
\* ^(?:p1|p2|...)[\s:\-._]+ under re.IGNORECASE
PrefixRe(ps) == <<Bos, Alt([j \in 1..Len(ps) |-> LitI(ps[j])]),
                  Plus(<<Cls(SpaceSet \cup {":", "-", ".", "_"})>>)>>
StripPrefix(ps) == [s \in Str |-> strip[sub(PrefixRe(ps), <<>>)[s]]]
\* one pass of the while loop (lines 254-272): the new value of name
CleanPass[name \in Str] ==
    StripPrefix(Prefixes)[
    _normalize_title_terms[
    _drop_garbage_tokens[
    _strip_stamp_fragments[
    _slice_from_first_anchor[
    EdgeTrim[name]]]]]]

\* \s*\(?\bT\s?E\s?L\b:?.*   and   \s*\(?\b\d+(?:V|PH|HZ|KW)\b.*
TelRe == <<WSs, Opt(<<Ch("(")>>), WB, ChI("T"), Opt(<<WS>>), ChI("E"), Opt(<<WS>>), ChI("L"),
           WB, Opt(<<Ch(":")>>), Star(<<Dot>>)>>
ElecRe == <<WSs, Opt(<<Ch("(")>>), WB, Plus(<<Cls(DigitSet)>>),
            Alt(<<LitI(<<"V">>), LitI(<<"P","H">>), LitI(<<"H","Z">>), LitI(<<"K","W">>)>>), WB, Star(<<Dot>>)>>
\* lines 277-281
PostTrim[name \in Str] ==
    CollapseWS[EdgeTrim[strip[sub(ElecRe, <<>>)[strip[sub(TelRe, <<>>)[name]]]]]]
RejectNames == {<<"T","I","T","L","E">>, <<"M","A","N","U","A","L">>, <<"R","E","F">>, <<"P","R","O","J","E","C","T">>, <<"D","W","G">>, <<"P","L","A","N">>}
\* the minimum-content gate of lines 283-284
Rejected(name) ==
    Len(SelectSeq(name, LAMBDA c : c \in AsciiAlpha \cup DigitSet)) < 4
    \/ upper[name] \in RejectNames
KeepUpper == {<<"E","/","R">>, <<"I","C","C","P">>, <<"M","G","P","S">>, <<"M",".","G",".","P",".","S">>, <<"V","/","V">>, <<"V","/","D">>}
SmartWord(w) ==
    IF upper[w] \in KeepUpper THEN upper[w]
    ELSE IF isupper(w) /\ Len(w) <= 4 THEN w
    ELSE capitalize(w)
\* (?i)^V/D\s+Of\b
VdOfRe == <<Bos>> \o LitI(<<"V","/","D">>) \o <<Plus(<<WS>>)>> \o LitI(<<"O","f">>) \o <<WB>>
smart_title[s \in Str] ==
    sub(VdOfRe, <<"V","/","D"," ","o","f">>)[join(SP, [j \in 1..Len(split[s]) |-> SmartWord(split[s][j])])]
\* lines 283-303 for the name that lines 277-281 leave
GateAndTitle[name \in Str] == IF Rejected(name) THEN <<>> ELSE smart_title[name]
\* lines 277-303: what clean_manual_name returns once the loop has ended
PostLoop[name \in Str] == GateAndTitle[PostTrim[name]]

\* the number of passes of the loop that the model follows
MaxPasses == 6
\* the value of a call that does not return
Hang == <<"Hang">>
\* the loop of lines 251-275 at the test of line 274, name being the value
\* after the last pass and prev the value before it (None before the first
\* pass), budget passes left: the fixed point the loop ends with, or Hang
\* when it has not ended within the bound
CleanLoop[prev \in Str, name \in Str, budget \in Nat] ==
    IF name = prev THEN name
    ELSE IF budget = 0 THEN Hang
    ELSE CleanLoop[name, CleanPass[name], budget - 1]
LoopResult[fixed \in Str] == IF fixed = Hang THEN Hang ELSE PostLoop[fixed]
clean_manual_name[name \in Str] ==
    IF Falsy(name) THEN <<>>
    ELSE LoopResult[CleanLoop[None, _normalize_title_terms[name], MaxPasses]]

(***************************************************************************)
(* pathlib.Path and the remaining string helpers                           *)
(***************************************************************************)
\* the maximal runs of characters outside seps, in order
Fields(s, seps) ==
    LET starts == {i \in 1..Len(s) : s[i] \notin seps /\ (i = 1 \/ s[i - 1] \in seps)}
        ends == {i \in 1..Len(s) : s[i] \notin seps /\ (i = Len(s) \/ s[i + 1] \in seps)}
        start(n) == CHOOSE a \in starts : Cardinality({b \in starts : b <= a}) = n
    IN [n \in 1..Cardinality(starts) |->
          SubSeq(s, start(n), SetMin({e \in ends : e >= start(n)}))]
\* s.strip(chars)
StripSet(s, chars) ==
    LET keep == {i \in 1..Len(s) : s[i] \notin chars}
    IN IF keep = {} THEN <<>> ELSE SubSeq(s, SetMin(keep), SetMax(keep))
\* s.replace(c, d) for characters c and d
ReplaceChar(s, c, d) == [i \in 1..Len(s) |-> IF s[i] = c THEN d ELSE s[i]]
\* seq[:n]
Take(seq, n) == IF Len(seq) <= n THEN seq ELSE SubSeq(seq, 1, n)
\* Path(p).name: the last component of the path, "" when it has none
PathName(p) ==
    LET parts == SelectSeq(Fields(p, {"/"}), LAMBDA c : c # <<".">>)
    IN IF Len(parts) = 0 THEN <<>> ELSE parts[Len(parts)]
\* str(Path(p).parent) of a path with at least two components
PathParent(p) ==
    LET cut == SetMax({i \in 1..Len(p) : p[i] = "/"} \cup {0})
    IN IF cut = 0 THEN <<".">> ELSE IF cut = 1 THEN <<"/">> ELSE SubSeq(p, 1, cut - 1)
\* Path(p).stem: the name without its last suffix
PathStem(p) ==
    LET name == PathName(p)
        dot == SetMax({i \in 1..Len(name) : name[i] = "."} \cup {0})
    IN IF dot > 1 /\ dot < Len(name) THEN SubSeq(name, 1, dot - 1) ELSE name

(***************************************************************************)
(* identify_manual_name                                                    *)
(***************************************************************************)
\* lines 306-308
Lines(text) ==
    IF Falsy(text) THEN <<>>
    ELSE LET raw == Fields(text, {"\n"})
             stripped == [i \in 1..Len(raw) |-> strip[raw[i]]]
         IN Take(SelectSeq(stripped, LAMBDA ln : ln # <<>>), 900)
\* line 310 and line 311
FilenameOnly(filename) == IF Falsy(filename) THEN <<>> ELSE PathStem(filename)
FolderName(folder_path) == IF Falsy(folder_path) THEN <<>> ELSE PathName(folder_path)
\* (?i)^[A-Z]+\([A-Z]\)-\d+
DrawingNoRe == <<Bos, Plus(<<Cls(AsciiAlpha)>>), Ch("("), Cls(AsciiAlpha), Ch(")"), Ch("-"),
                 Plus(<<Cls(DigitSet)>>)>>
\* line 314
IsDrawingPrefix(filename_only) == M(DrawingNoRe, filename_only, 1) # 0
\* lines 315-317
FnClean(filename_only) ==
    CollapseWS[ReplaceChar(ReplaceChar(
        strip[sub(DrawingNoRe \o <<WSs>>, <<>>)[filename_only]], "_", " "), "-", " ")]
\* an acceptance test that takes every name that is not empty
AcceptedNonEmpty(cleaned) == ~Falsy(cleaned)
\* cleaned and _is_meaningful_title(cleaned), the acceptance test of
\* lines 358, 367, 394, 403 and 411
Accepted(cleaned) == ~Falsy(cleaned) /\ _is_meaningful_title(cleaned)
\* the test on the cleaned candidate after which a strategy returns it:
\* `cleaned and _is_meaningful_title(cleaned)` in the strategies 3 to 7,
\* `cleaned` in the strategies 1 and 2
Taken(cleaned, k) == IF k \in 3..7 THEN Accepted(cleaned) ELSE ~Falsy(cleaned)
\* `cleaned = clean_manual_name(c)` and the test on it for the candidates
\* cands of strategy k in order, from candidate i on: the name returned,
\* <<>> when no candidate is taken, Hang when a call of clean_manual_name
\* does not return.  The function is applied to the cleaned candidate
RECURSIVE FirstAccepted(_, _, _)
FirstAccepted(cands, i, k) ==
    IF i > Len(cands) THEN <<>>
    ELSE [cleaned \in Str |->
            IF cleaned = Hang THEN Hang
            ELSE IF Taken(cleaned, k) THEN cleaned
            ELSE FirstAccepted(cands, i + 1, k)][clean_manual_name[cands[i]]]

\* Try1 to Try8 are the candidates that the strategies 1 to 8 pass to
\* clean_manual_name, in order
\* strategy 1 left out
Try1Skipped(filename) == <<>>
\* strategy 1 (lines 319-324): the drawing-number filename
EnoughWords(fn_clean) == Len(SelectSeq(split[fn_clean], LAMBDA w : Len(w) >= 2)) >= 2
Try1(filename) ==
    IF IsDrawingPrefix(FilenameOnly(filename)) /\ EnoughWords(FnClean(FilenameOnly(filename)))
    THEN <<FnClean(FilenameOnly(filename))>>
    ELSE <<>>
\* strategy 2 (lines 327-331): the vendor-drawing filename
\* (?i)\bV\s*[-./]?\s*D\s*OF\b
VdOfSearchRe == <<WB, ChI("V"), WSs, Opt(<<Cls({"-", ".", "/"})>>), WSs, ChI("D"), WSs>>
                \o LitI(<<"O","F">>) \o <<WB>>
Try2(filename) ==
    IF Found(VdOfSearchRe, FnClean(FilenameOnly(filename)))
    THEN <<_normalize_title_terms[FnClean(FilenameOnly(filename))]>>
    ELSE <<>>

\* strategy 3 (lines 334-359): the TITLE block
\* \bTITLE\b\s*[:\-]? under re.IGNORECASE
TitleRe == <<WB>> \o LitI(<<"T","I","T","L","E">>) \o <<WB, WSs, OptColonDash>>
BlockStopWords == <<<<"P","R","O","J","E","C","T"," ","N","O">>, <<"P","L","A","N"," ","N","O">>, <<"D","W","G"," ","N","O">>, <<"D","R","A","W","I","N","G"," ","N","O">>, <<"S","H","E","E","T">>, <<"S","C","A","L","E">>,
                    <<"D","E","P","T">>, <<"D","S","M","E">>>>
BlockEndWords == <<<<"V","/","D">>, <<"E","/","R">>, <<"P","L","A","N">>, <<"L","I","S","T">>, <<"A","R","R","A","N","G","E","M","E","N","T">>, <<"S","Y","S","T","E","M">>, <<"P","L","A","N","T">>>>
\* _alpha_ratio(nxt) < pct / 100 and not re.search(r"[A-Za-z]{3,}", nxt)
LowAlpha(nxt, pct) == RatioBelow(_alpha_ratio(nxt), pct) /\ ~Found(Letters3Re, nxt)
\* the loop of lines 339-355 from step j on: " ".join(chunk) at its end,
\* joined being " ".join(chunk) so far
RECURSIVE TitleChunk(_, _, _, _)
TitleChunk(lines, i, j, joined) ==
    IF j >= 35 \/ i + j > Len(lines) THEN joined
    ELSE IF _looks_like_stamp_or_revision(upper[lines[i + j]]) THEN joined
    ELSE IF ContainsAny(upper[lines[i + j]], BlockStopWords) THEN joined
    ELSE IF LowAlpha(lines[i + j], 20) THEN TitleChunk(lines, i, j + 1, joined)
    ELSE IF Len(joined \o SP \o lines[i + j]) > 40
            /\ ContainsAny(upper[joined \o SP \o lines[i + j]], BlockEndWords)
         THEN joined \o SP \o lines[i + j]
    ELSE TitleChunk(lines, i, j + 1, joined \o SP \o lines[i + j])
\* the candidates of the lines that hold TITLE, in line order
TitleCandidates(lines) ==
    LET at == SelectSeq([i \in 1..Len(Take(lines, 320)) |-> i],
                        LAMBDA i : Found(TitleRe, lines[i]))
    IN [n \in 1..Len(at) |->
          TitleChunk(lines, at[n], 1, From(lines[at[n]], FirstMatch(TitleRe, lines[at[n]], 1)))]
Try3(text) == TitleCandidates(Lines(text))

\* strategy 4 (lines 362-368): the merged-OCR TITLE line
MergedWords == <<<<"V","-","D">>, <<"V","/","D">>, <<"S","P","A","R","E">>, <<"A","R","R">>, <<"N","A","M","E">>, <<"V","A","L","V","E">>, <<"E","Q","U","I","P","M","E","N","T">>, <<"S","Y","S","T","E","M">>, <<"P","L","A","N","T">>>>
MergedCandidates(lines) ==
    LET hit == SelectSeq(Take(lines, 420),
                         LAMBDA ln : Contains(upper[ln], <<"T","I","T","L","E">>)
                                     /\ ContainsAny(upper[ln], MergedWords))
    IN [n \in 1..Len(hit) |-> From(hit[n], find(upper[hit[n]], <<"T","I","T","L","E">>))]
Try4(text) == MergedCandidates(Lines(text))

\* strategy 5 (lines 371-395): the keyword scan
\* the loop of lines 381-392 from step j on: the candidate at its end
RECURSIVE KeywordCandidate(_, _, _, _)
KeywordCandidate(lines, i, j, candidate) ==
    IF j >= 12 \/ i + j > Len(lines) THEN candidate
    ELSE IF _looks_like_stamp_or_revision(upper[lines[i + j]]) THEN candidate
    ELSE IF LowAlpha(lines[i + j], 18) THEN KeywordCandidate(lines, i, j + 1, candidate)
    ELSE IF Len(candidate \o SP \o lines[i + j]) > 360 THEN candidate \o SP \o lines[i + j]
    ELSE KeywordCandidate(lines, i, j + 1, candidate \o SP \o lines[i + j])
\* the candidate of a line does not depend on the keyword found in it, so
\* a line gives one candidate however many keywords it holds
KeywordCandidates(lines) ==
    LET at == SelectSeq([i \in 1..Len(Take(lines, 550)) |-> i],
                        LAMBDA i : /\ ~_looks_like_stamp_or_revision(upper[lines[i]])
                                   /\ ~LowAlpha(lines[i], 18)
                                   /\ ContainsAny(upper[lines[i]], SYSTEM_KEYWORDS)
                                   /\ Len(lines[i]) < 260)
    IN [n \in 1..Len(at) |-> KeywordCandidate(lines, at[n], 1, lines[at[n]])]
Try5(text) == KeywordCandidates(Lines(text))

\* strategy 6 (lines 398-404): the label patterns.  A pattern is the part
\* before its group and the character class G of the group ([G]+, the last
\* element of every LABEL_PATTERNS entry), under re.IGNORECASE
LabelHead(words) == Alt([j \in 1..Len(words) |-> LitI(words[j])])
LABEL_PATTERNS == <<
    [pre |-> <<LabelHead(<<<<"T","i","t","l","e">>, <<"M","a","n","u","a","l"," ","f","o","r">>, <<"D","r","a","w","i","n","g"," ","T","i","t","l","e">>, <<"P","l","a","n"," ","T","i","t","l","e">>>>), WSs,
               Cls({":", "-"}), WSs>>,
     G |-> AsciiAlpha \cup SpaceSet \cup {"/", "&", ".", "-"}],
    [pre |-> <<LabelHead(<<<<"E","n","g","i","n","e">>, <<"M","/","E">>, <<"A","/","E">>>>), WSs>> \o LitI(<<"t","y","p","e">>)
             \o <<WSs, OptColonDash, WSs>>,
     G |-> AsciiAlpha \cup DigitSet \cup {"/", ".", "-"}],
    [pre |-> <<Alt(<<LitI(<<"S","h","i","p">>), LitI(<<"H","u","l","l">>), LitI(<<"P","r","o","j","e","c","t">>),
                     <<ChI("H"), OptDot>> \o LitI(<<"N","O">>) \o <<OptDot>> >>), WSs,
               Alt(<<LitI(<<"n","o">>) \o <<OptDot>>, LitI(<<"N","u","m","b","e","r">>)>>), WSs, OptColonDash, WSs>>,
     G |-> AsciiAlpha \cup DigitSet \cup {"/", ".", "-"}],
    [pre |-> <<LabelHead(<<<<"V","e","s","s","e","l">>, <<"S","h","i","p">>>>), WSs>> \o LitI(<<"N","a","m","e">>)
             \o <<WSs, OptColonDash, WSs>>,
     G |-> AsciiAlpha \cup SpaceSet] >>
\* re.search(pat, text, re.IGNORECASE): group(1) of the leftmost match as
\* <<TRUE, group>>, <<FALSE, <<>> >> when there is no match.  The group
\* starts where the part before it first ends with a character of G
\* following, and is the whole run of G from there
LabelGroup(pat, text) ==
    LET i == FirstMatch(pat.pre \o <<Cls(pat.G)>>, text, 1)
        g == M(pat.pre \o <<Cls(pat.G)>>, text, i) - 1
    IN IF i = 0 THEN <<FALSE, <<>> >>
       ELSE <<TRUE, SubSeq(text, g, g + RunLen(Cls(pat.G), text, g, -1) - 1)>>
LabelCandidates(text) ==
    LET t == IF Falsy(text) THEN <<>> ELSE text
        found == SelectSeq([n \in 1..Len(LABEL_PATTERNS) |-> LabelGroup(LABEL_PATTERNS[n], t)],
                           LAMBDA r : r[1])
    IN [n \in 1..Len(found) |-> strip[found[n][2]]]
Try6(text) == LabelCandidates(text)

\* pdf metadata: has_title says that the metadata is a non-empty mapping
\* with the key /Title, title is str(metadata["/Title"])
NoMetadata == [has_title |-> FALSE, title |-> <<>>]
WithTitle(t) == [has_title |-> TRUE, title |-> t]
\* metadata and metadata.get("/Title")
HasTitle(metadata) == metadata.has_title /\ ~Falsy(metadata.title)
\* strategy 7 (lines 407-412): the metadata title
BlankTitles == {<<"u","n","t","i","t","l","e","d">>, <<"n","o","n","e">>, <<"1">>}
Try7(metadata) ==
    IF HasTitle(metadata) /\ Len(strip[metadata.title]) > 5
       /\ lower[strip[metadata.title]] \notin BlankTitles
    THEN <<strip[metadata.title]>>
    ELSE <<>>
\* strategy 8 (lines 414-416): folder name and filename
Try8(filename, folder_path) ==
    <<StripSet(FolderName(folder_path) \o <<" ","-"," ">> \o FnClean(FilenameOnly(filename)), {" ", "-"})>>

\* the candidates of strategy k
Candidates(k, text, filename, folder_path, metadata) ==
    CASE k = 1 -> Try1(filename)
      [] k = 2 -> Try2(filename)
      [] k = 3 -> Try3(text)
      [] k = 4 -> Try4(text)
      [] k = 5 -> Try5(text)
      [] k = 6 -> Try6(text)
      [] k = 7 -> Try7(metadata)
      [] k = 8 -> Try8(filename, folder_path)
\* the outcome of strategy k: the name it returns, <<>> when it does not
\* return (strategy 8 returns the cleaned fallback even when it is empty),
\* Hang when it does not end
TryStrategy(k, text, filename, folder_path, metadata) ==
    FirstAccepted(Candidates(k, text, filename, folder_path, metadata), 1, k)
\* the function from strategy k on, as <<strategy that returned, name>>;
\* <<k, Hang>> when strategy k does not end.  The function is applied to
\* the outcome of strategy k
RECURSIVE IdentifyFrom(_, _, _, _, _)
IdentifyFrom(k, text, filename, folder_path, metadata) ==
    [r \in Str |->
       IF k = 8 \/ ~Falsy(r) THEN <<k, r>>
       ELSE IdentifyFrom(k + 1, text, filename, folder_path, metadata)][
    TryStrategy(k, text, filename, folder_path, metadata)]
identify_manual_name(text, filename, folder_path, metadata) ==
    IdentifyFrom(1, text, filename, folder_path, metadata)[2]

(***************************************************************************)
(* classify_doc_type                                                       *)
(***************************************************************************)
\* the first bucket's list without its bare first word
ManualWordsCompound == <<<<"i","n","s","t","r","u","c","t","i","o","n">>, <<"h","a","n","d","b","o","o","k">>, <<"g","u","i","d","e">>, <<"t","m","m">>, <<"o","p","e","r","a","t","i","o","n"," ","m","a","n","u","a","l">>,
                         <<"m","a","i","n","t","e","n","a","n","c","e"," ","m","a","n","u","a","l">>>>
ManualWords == <<<<"m","a","n","u","a","l">>, <<"i","n","s","t","r","u","c","t","i","o","n">>, <<"h","a","n","d","b","o","o","k">>, <<"g","u","i","d","e">>, <<"t","m","m">>, <<"o","p","e","r","a","t","i","o","n"," ","m","a","n","u","a","l">>,
                 <<"m","a","i","n","t","e","n","a","n","c","e"," ","m","a","n","u","a","l">>>>
CapacityWords == <<<<"c","a","p","a","c","i","t","y"," ","p","l","a","n">>, <<"t","a","n","k"," ","c","a","p","a","c","i","t","y">>, <<"t","a","n","k"," ","t","a","b","l","e">>, <<"s","o","u","n","d","i","n","g"," ","t","a","b","l","e">>,
                   <<"d","e","a","d","w","e","i","g","h","t"," ","s","c","a","l","e">>>>
CertificateWords == <<<<"c","e","r","t","i","f","i","c","a","t","e">>, <<"r","e","p","o","r","t">>, <<"t","e","s","t"," ","r","e","s","u","l","t">>, <<"a","p","p","r","o","v","a","l">>,
                      <<"i","n","c","l","i","n","i","n","g"," ","e","x","p","e","r","i","m","e","n","t">>, <<"s","e","a"," ","t","r","i","a","l">>, <<"t","e","s","t"," ","r","e","c","o","r","d">>>>
DrawingWords == <<<<"d","r","a","w","i","n","g">>, <<"d","i","a","g","r","a","m">>, <<"s","c","h","e","m","a","t","i","c">>, <<"b","l","u","e","p","r","i","n","t">>, <<"a","r","r","'","t">>, <<"a","r","r","a","n","g","m","e","n","t">>,
                  <<"a","r","r","a","n","g","e","m","e","n","t">>, <<"p","l","a","n">>, <<"d","e","t","a","i","l","s"," ","o","f">>, <<"v","/","d">>, <<"v","/","d","w","g">>, <<"v","e","n","d","o","r"," ","d","r","a","w","i","n","g">>>>
EquipmentWords == <<<<"e","q","u","i","p","m","e","n","t"," ","l","i","s","t">>, <<"v","/","v"," ","l","i","s","t">>, <<"v","a","l","v","e"," ","l","i","s","t">>, <<"f","l","o","w","m","e","t","e","r">>,
                    <<"p","l","a","t","e"," ","t","y","p","e"," ","c","o","o","l","e","r">>, <<"c","e","n","t","r","i","f","u","g","a","l"," ","p","u","m","p">>, <<"m",".","g",".","p",".","s">>, <<"p","r","e","v","e","n","t","i","o","n"," ","s","y","s","t","e","m">>,
                    <<"n","a","m","e"," ","a","n","d"," ","c","a","u","t","i","o","n"," ","p","l","a","t","e">>, <<"d","o","o","r"," ","p","l","a","n">>, <<"i","n","s","u","l","a","t","i","o","n"," ","p","l","a","n">>,
                    <<"i","n","s","t","a","l","l","a","t","i","o","n"," ","o","f">>, <<"l","i","f","t","i","n","g"," ","b","e","a","m">>, <<"c","r","a","n","e">>, <<"a","i","r","-","c","o","n"," ","s","y","s","t","e","m">>,
                    <<"p","r","o","v","i","s","i","o","n"," ","r","e","f","r","i","g","e","r","a","t","i","n","g"," ","p","l","a","n","t">>, <<"v","e","n","d","o","r"," ","d","r","a","w","i","n","g">>, <<"v","/","d"," ","o","f">>>>
StructureWords == <<<<"s","t","r","u","c","t","u","r","e">>, <<"c","o","n","s","t","r","u","c","t","i","o","n">>, <<"b","o","d","y"," ","p","l","a","n">>, <<"s","h","e","l","l"," ","e","x","p","a","n","s","i","o","n">>,
                    <<"d","e","c","k"," ","a","n","d"," ","s","t","r","i","n","g","e","r">>, <<"b","u","l","k","h","e","a","d">>, <<"f","r","a","m","e","s">>, <<"c","o","a","m","i","n","g","s">>, <<"f","o","r","e"," ","b","o","d","y">>>>
\* the outcome of a call that raises: Path(None) raises TypeError
Raised == "TypeError"
\* line 419, for a folder_path that is a string
Combined(text, filename, folder_path) ==
    lower[normalize_text[text] \o SP \o normalize_text[filename] \o SP
          \o normalize_text[PathName(folder_path)]]
\* the buckets with the certificate bucket tried first
ClassifyCertificateFirst(combined) ==
    IF ContainsAny(combined, CertificateWords) THEN "Certificate / Report"
    ELSE IF ContainsAny(combined, ManualWords) THEN "Machinery/System Manual"
    ELSE IF ContainsAny(combined, CapacityWords) THEN "Capacity Plan / Datasheet"
    ELSE IF ContainsAny(combined, DrawingWords) /\ ~Contains(combined, <<"m","a","n","u","a","l">>) THEN "Drawing"
    ELSE IF ContainsAny(combined, EquipmentWords) /\ ~Contains(combined, <<"m","a","n","u","a","l">>)
         THEN "Drawing"
    ELSE IF ContainsAny(combined, StructureWords) THEN "Drawing"
    ELSE "Unknown"
\* lines 421-446 on the combined string
Classify(combined) ==
    IF ContainsAny(combined, ManualWords) THEN "Machinery/System Manual"
    ELSE IF ContainsAny(combined, CapacityWords) THEN "Capacity Plan / Datasheet"
    ELSE IF ContainsAny(combined, CertificateWords) THEN "Certificate / Report"
    ELSE IF ContainsAny(combined, DrawingWords) /\ ~Contains(combined, <<"m","a","n","u","a","l">>) THEN "Drawing"
    ELSE IF ContainsAny(combined, EquipmentWords) /\ ~Contains(combined, <<"m","a","n","u","a","l">>)
         THEN "Drawing"
    ELSE IF ContainsAny(combined, StructureWords) THEN "Drawing"
    ELSE "Unknown"
classify_doc_type(text, filename, folder_path) ==
    IF folder_path = None THEN Raised
    ELSE Classify(Combined(text, filename, folder_path))

(***************************************************************************)
(* The confidence logic of the scan loop (app.py, lines 176-188)           *)
(***************************************************************************)
\* the match without the test that the trimmed title is not empty
MetadataMatchUnguarded(metadata, manual_name) ==
    HasTitle(metadata) /\ Contains(upper[manual_name], upper[strip[metadata.title]])
\* lines 182-184: the metadata title, trimmed and upper-cased, is not empty
\* and occurs in the upper-cased name
MetadataMatch(metadata, manual_name) ==
    HasTitle(metadata)
    /\ upper[strip[metadata.title]] # <<>>
    /\ Contains(upper[manual_name], upper[strip[metadata.title]])
\* line 187: "manual" in file_path.name.lower() or in str(file_path.parent).lower()
KeywordClue(file_path) ==
    Contains(lower[PathName(file_path)], <<"m","a","n","u","a","l">>)
    \/ Contains(lower[PathParent(file_path)], <<"m","a","n","u","a","l">>)
\* lines 177-188: the confidence level and the clues, in order
ConfidenceLogic(content, metadata, manual_name, file_path) ==
    [confidence |-> IF MetadataMatch(metadata, manual_name) THEN "High"
                    ELSE IF strip[content] # <<>> THEN "Med" ELSE "Low",
     clues |-> (IF strip[content] # <<>> THEN <<"Text content">> ELSE <<>>)
               \o (IF MetadataMatch(metadata, manual_name) THEN <<"Metadata match">> ELSE <<>>)
               \o (IF KeywordClue(file_path) THEN <<"Keyword clue">> ELSE <<>>)]

(***************************************************************************)
(* State.  clean, slicer, tok, ident and cls are the frames of a call of   *)
(* clean_manual_name, _slice_from_first_anchor, _drop_garbage_tokens,      *)
(* identify_manual_name and classify_doc_type; scan is the frame of the    *)
(* scan loop of app.py;                                                    *)
(* results, scanning and stop_requested are st.session_state, notice is    *)
(* the message last shown.                                                 *)
(***************************************************************************)
VARIABLES clean, slicer, tok, ident, cls, scan, results, scanning, stop_requested, notice
vars == <<clean, slicer, tok, ident, cls, scan, results, scanning, stop_requested, notice>>
session == <<results, scanning, stop_requested, notice>>
\* a frame that is not in use
Idle == [pc |-> "idle"]
\* app.py, lines 33-38
SessionInit ==
    results = <<>> /\ scanning = FALSE /\ stop_requested = FALSE /\ notice = ""

(***************************************************************************)
(* clean_manual_name, pass by pass; a second call on the result of the     *)
(* first follows it                                                        *)
(***************************************************************************)
VdSpellings == <<<<"V","-","D"," ","O","F">>, <<"V",".","D"," ","O","F">>, <<"V"," ","/"," ","D"," ","O","F">>, <<"V","D"," ","O","F">>, <<"V","/","D"," ","O","F">>, <<"v","-","d"," ","o","f">>>>
VdTitles == <<<<"M","A","I","N"," ","P","U","M","P">>, <<"P","R","O","V","I","S","I","O","N"," ","R","E","F","."," ","P","L","A","N","T">>, <<"A","I","R","-","C","O","N"," ","S","Y","S","T","E","M">>, <<"E"," ","R"," ","A","R","R","'","T">>,
              <<"T","I","T","L","E"," ","O","L","T"," ","(","T","E","L"," ","1","2",")">>, <<"D","W","G"," ","O","F"," ","X"," ","4","4","0","V">>>>
CleanInputs ==
    {VdSpellings[v] \o SP \o VdTitles[t] : v \in 1..Len(VdSpellings), t \in 1..Len(VdTitles)}
    \cup {None, <<>>, <<"V","/","D"," ","P","U","M","P">>, <<"V","D"," ","P","U","M","P"," ","U","N","I","T">>, <<"V","-","D"," ","O","F"," ","V","/","D"," ","P","U","M","P">>, <<"e","n","g","i","n","e"," ","a","1","2"," ","r","o","o","m">>,
          <<"M","a","n","u","a","l"," ","f","o","r"," ","M","a","i","n"," ","E","n","g","i","n","e"," ","C","o","o","l","e","r">>, <<"T","I","T","L","E",":"," ","S","P","A","R","E"," ","P","A","R","T","S"," ","&"," ","T","O","O","L","S"," ","L","I","S","T">>,
          <<"S","t","e","e","r","i","n","g"," ","G","e","a","r"," ","(","T","E","L",":"," ","1","2","3",")">>, <<"C","e","n","t","r","i","f","u","g","a","l"," ","P","u","m","p"," ","4","4","0","V"," ","6","0","H","Z">>, <<"-","-"," ","R","E","F"," ","-","-">>,
          <<"R","E","V","."," ","A"," ","D","A","T","E"," ","2","0","2","0"," ","M","A","I","N"," ","E","N","G","I","N","E"," ","A","R","R","A","N","G","E","M","E","N","T">>, <<"x","x"," ",">",">"," ","1","2"," ","C","O","O","L","E","R"," ","P","L","A","T","E"," ","T","Y","P","E">>}
CleanFrame(s) ==
    [pc |-> "call", arg |-> s, name |-> s, passes |-> 0, round |-> 1, first |-> <<>>,
     result |-> <<>>]
InitClean ==
    /\ clean \in {CleanFrame(s) : s \in CleanInputs}
    /\ tok = Idle /\ ident = Idle /\ cls = Idle /\ scan = Idle /\ slicer = Idle
    /\ SessionInit
\* lines 246-249
CleanEnter ==
    /\ clean.pc = "call"
    /\ clean' = IF Falsy(clean.name)
                THEN [clean EXCEPT !.pc = "done", !.result = <<>>]
                ELSE [clean EXCEPT !.pc = "loop", !.name = _normalize_title_terms[clean.name]]
    /\ UNCHANGED <<slicer, tok, ident, cls, scan, session>>
\* one pass of the loop, lines 252-275
CleanIterate ==
    /\ clean.pc = "loop"
    /\ clean.passes < MaxPasses
    /\ \E name \in {CleanPass[clean.name]} :
         clean' = [clean EXCEPT !.name = name,
                                !.passes = @ + 1,
                                !.pc = IF name = clean.name THEN "post" ELSE "loop"]
    /\ UNCHANGED <<slicer, tok, ident, cls, scan, session>>
\* lines 277-303
CleanReturn ==
    /\ clean.pc = "post"
    /\ clean' = [clean EXCEPT !.pc = "done", !.result = PostLoop[clean.name]]
    /\ UNCHANGED <<slicer, tok, ident, cls, scan, session>>
\* the caller passes the name returned to clean_manual_name again
CleanAgain ==
    /\ clean.pc = "done"
    /\ clean.round = 1
    /\ clean' = [CleanFrame(clean.result) EXCEPT !.round = 2, !.first = clean.result]
    /\ UNCHANGED <<slicer, tok, ident, cls, scan, session>>
NextClean == CleanEnter \/ CleanIterate \/ CleanReturn \/ CleanAgain
SpecClean == InitClean /\ [][NextClean]_vars

(***************************************************************************)
(* _drop_garbage_tokens, token by token                                    *)
(***************************************************************************)
\* the longest input of the token filter, in tokens
MaxTokens == 2
TokenVocab == <<<<"I","C","C","P">>, <<"M","G","P","S">>, <<"V","/","D">>, <<"E","/","R">>, <<"M","A","I","N">>, <<"A","U","X">>, <<"O","L","T">>, <<"P","L","A","N">>, <<"B","R","K","T">>, <<"A","1","2">>,
                <<"A","N","D">>, <<"f","o","r">>, <<"m","g","p","s">>, <<"b","r","g">>, <<"P","u","m","p">>, <<"e","-","r">>>>
RECURSIVE TokenInputsOf(_)
\* the inputs of n tokens
TokenInputsOf(n) ==
    IF n = 1 THEN {TokenVocab[j] : j \in 1..Len(TokenVocab)}
    ELSE {s \o SP \o TokenVocab[j] : s \in TokenInputsOf(n - 1), j \in 1..Len(TokenVocab)}
TokenInputs == UNION {TokenInputsOf(n) : n \in 1..MaxTokens} \cup {<<>>, None}
InitToken ==
    /\ tok \in {[pc |-> "call", s |-> s, toks |-> <<>>, i |-> 1, tokens |-> <<>>,
                 result |-> <<>>] : s \in TokenInputs}
    /\ clean = Idle /\ ident = Idle /\ cls = Idle /\ scan = Idle /\ slicer = Idle
    /\ SessionInit
\* lines 184-187
TokEnter ==
    /\ tok.pc = "call"
    /\ tok' = IF Falsy(tok.s)
              THEN [tok EXCEPT !.pc = "done", !.result = <<>>]
              ELSE [tok EXCEPT !.pc = "loop", !.toks = split[tok.s]]
    /\ UNCHANGED <<slicer, clean, ident, cls, scan, session>>
\* one iteration of the loop, lines 188-226
TokStep ==
    /\ tok.pc = "loop"
    /\ tok.i <= Len(tok.toks)
    /\ tok' = [tok EXCEPT !.tokens = @ \o TokenOut(tok.toks[tok.i]), !.i = @ + 1]
    /\ UNCHANGED <<slicer, clean, ident, cls, scan, session>>
\* line 228
TokReturn ==
    /\ tok.pc = "loop"
    /\ tok.i > Len(tok.toks)
    /\ tok' = [tok EXCEPT !.pc = "done", !.result = CollapseWS[join(SP, tok.tokens)]]
    /\ UNCHANGED <<slicer, clean, ident, cls, scan, session>>
NextToken == TokEnter \/ TokStep \/ TokReturn
SpecToken == InitToken /\ [][NextToken]_vars

(***************************************************************************)
(* identify_manual_name, strategy by strategy                              *)
(***************************************************************************)
IdentifyTexts ==
    {None,
     <<"D","S","M","E","\n","T","I","T","L","E","\n","V","/","D"," ","O","F"," ","P","R","O","V","I","S","I","O","N"," ","R","E","F","."," ","P","L","A","N","T","\n","D","A","T","E"," ","R","E","V">>,
     <<"D","W","G","T","I","T","L","E"," ","S","P","A","R","E"," ","P","A","R","T","S"," ","A","N","D"," ","T","O","O","L","S"," ","L","I","S","T">>,
     <<"1","2"," ","3","4","\n","S","T","E","E","R","I","N","G"," ","G","E","A","R"," ","R","O","O","M"," ","A","R","R","A","N","G","E","M","E","N","T","\n","R","E","V","."," ","A">>,
     <<"H","e","l","l","o","\n","M","a","n","u","a","l"," ","f","o","r",":"," ","o","i","l","y"," ","w","a","t","e","r"," ","s","e","p","a","r","a","t","o","r"," ","s","y","s","t","e","m">>,
     <<"T","I","T","L","E",":"," ","C","O","O","L","E","R">>,
     <<"T","I","T","L","E",":"," ","V","/","D"," ","P","U","M","P">>}
IdentifyFiles ==
    {<<"x",".","p","d","f">>, <<"M","(","A",")","-","1","2"," ","M","A","I","N"," ","E","N","G","I","N","E"," ","A","R","R","A","N","G","E","M","E","N","T",".","p","d","f">>, <<"M","(","A",")","-","7"," ","X",".","p","d","f">>, <<"V",".","D"," ","O","F"," ","B","I","L","G","E"," ","P","U","M","P",".","p","d","f">>}
IdentifyFolders == {<<>>, <<"/","d","a","t","a","/","H","u","l","l"," ","1","2","3","4"," ","d","r","a","w","i","n","g","s">>}
IdentifyMetadata == {NoMetadata, WithTitle(<<" ","S","e","w","a","g","e"," ","T","r","e","a","t","m","e","n","t"," ","P","l","a","n","t"," ">>), WithTitle(<<"P","u","m","p"," ","R","o","o","m">>)}
InitIdentify ==
    /\ ident \in {[pc |-> "run", text |-> t, filename |-> f, folder_path |-> d,
                   metadata |-> m, strategy |-> 1, cands |-> <<>>, i |-> 1,
                   result |-> <<>>] :
                  t \in IdentifyTexts, f \in IdentifyFiles, d \in IdentifyFolders,
                  m \in IdentifyMetadata}
    /\ clean = Idle /\ tok = Idle /\ cls = Idle /\ scan = Idle /\ slicer = Idle
    /\ SessionInit
\* strategy k finds its candidates cands
StrategyStep(k, cands) ==
    /\ ident.pc = "run"
    /\ ident.strategy = k
    /\ ident' = [ident EXCEPT !.pc = "try", !.cands = cands, !.i = 1]
    /\ UNCHANGED <<slicer, clean, tok, cls, scan, session>>
Strategy1 == StrategyStep(1, Try1(ident.filename))
Strategy2 == StrategyStep(2, Try2(ident.filename))
Strategy3 == StrategyStep(3, Try3(ident.text))
Strategy4 == StrategyStep(4, Try4(ident.text))
Strategy5 == StrategyStep(5, Try5(ident.text))
Strategy6 == StrategyStep(6, Try6(ident.text))
Strategy7 == StrategyStep(7, Try7(ident.metadata))
Strategy8 == StrategyStep(8, Try8(ident.filename, ident.folder_path))
\* the strategy cleans its next candidate and returns it when the test on
\* it holds; strategy 8 returns whatever the cleaning leaves
CleanCandidate ==
    /\ ident.pc = "try"
    /\ ident.i <= Len(ident.cands)
    /\ \E cleaned \in {clean_manual_name[ident.cands[ident.i]]} :
         ident' = IF cleaned = Hang THEN [ident EXCEPT !.pc = "hang"]
                  ELSE IF ident.strategy = 8 \/ Taken(cleaned, ident.strategy)
                  THEN [ident EXCEPT !.pc = "returned", !.result = cleaned]
                  ELSE [ident EXCEPT !.i = @ + 1]
    /\ UNCHANGED <<slicer, clean, tok, cls, scan, session>>
\* no candidate of the strategy was taken: the next strategy runs
NextStrategy ==
    /\ ident.pc = "try"
    /\ ident.i > Len(ident.cands)
    /\ ident.strategy < 8
    /\ ident' = [ident EXCEPT !.pc = "run", !.strategy = @ + 1, !.cands = <<>>, !.i = 1]
    /\ UNCHANGED <<slicer, clean, tok, cls, scan, session>>
NextIdentify ==
    \/ Strategy1 \/ Strategy2 \/ Strategy3 \/ Strategy4
    \/ Strategy5 \/ Strategy6 \/ Strategy7 \/ Strategy8
    \/ CleanCandidate \/ NextStrategy
SpecIdentify == InitIdentify /\ [][NextIdentify]_vars

(***************************************************************************)
(* classify_doc_type                                                       *)
(***************************************************************************)
ClassifyTexts ==
    {None, <<>>, <<"I","n","s","t","r","u","c","t","i","o","n"," ","M","a","n","u","a","l"," ","f","o","r"," ","t","h","e"," ","d","o","c","k","i","n","g"," ","p","l","a","n">>, <<"T","a","n","k"," ","c","a","p","a","c","i","t","y"," ","r","e","p","o","r","t">>,
     <<"S","e","a"," ","t","r","i","a","l"," ","r","e","p","o","r","t"," ","o","f"," ","t","h","e"," ","s","h","e","l","l"," ","e","x","p","a","n","s","i","o","n"," ","p","l","a","n">>, <<"V","a","l","v","e"," ","L","i","s","t"," ","V","/","D"," ","o","f"," ","P","u","m","p">>,
     <<"S","h","e","l","l"," ","e","x","p","a","n","s","i","o","n"," ","a","n","d"," ","b","u","l","k","h","e","a","d">>, <<"L","o","r","e","m"," ","i","p","s","u","m">>}
ClassifyFiles == {None, <<"x",".","p","d","f">>, <<"a","p","p","r","o","v","a","l"," ","d","r","a","w","i","n","g",".","p","d","f">>, <<"c","r","a","n","e",".","d","o","c","x">>}
ClassifyFolders == {None, <<>>, <<"/","d","a","t","a","/","m","a","n","u","a","l","s">>, <<"/","d","a","t","a","/","h","u","l","l","/">>, <<"/","d","a","t","a","/","S","o","u","n","d","i","n","g"," ","T","a","b","l","e">>}
InitClassify ==
    /\ cls \in {[pc |-> "call", text |-> t, filename |-> f, folder_path |-> d,
                 outcome |-> ""] :
                t \in ClassifyTexts, f \in ClassifyFiles, d \in ClassifyFolders}
    /\ clean = Idle /\ tok = Idle /\ ident = Idle /\ scan = Idle /\ slicer = Idle
    /\ SessionInit
\* lines 418-446: the label returned, or Raised
ClassifyCall ==
    /\ cls.pc = "call"
    /\ cls' = [cls EXCEPT !.pc = "done",
                          !.outcome = classify_doc_type(cls.text, cls.filename,
                                                        cls.folder_path)]
    /\ UNCHANGED <<slicer, clean, tok, ident, scan, session>>
NextClassify == ClassifyCall
SpecClassify == InitClassify /\ [][NextClassify]_vars

(***************************************************************************)
(* The scan loop of app.py (lines 98-213)                                  *)
(***************************************************************************)
\* file_path.suffix: the last suffix of the name, "" when it has none
PathSuffix(p) ==
    LET name == PathName(p)
        dot == SetMax({i \in 1..Len(name) : name[i] = "."} \cup {0})
    IN IF dot > 1 /\ dot < Len(name) THEN SubSeq(name, dot, Len(name)) ELSE <<>>
\* a file of the folder: its path, the text and the metadata its first two
\* pages hold, and whether reading it fails
ScanFile(path, text, metadata, fails) ==
    [path |-> path, text |-> text, metadata |-> metadata, fails |-> fails]
InputFolder == <<"/","d","a","t","a">>
FilePool ==
    {ScanFile(<<"/","d","a","t","a","/","m","a","n","u","a","l","s","/","h","u","l","l","1","/","x",".","p","d","f">>, <<"M","a","i","n"," ","e","n","g","i","n","e"," ","c","o","o","l","e","r">>,
              WithTitle(<<"M","A","I","N"," ","E","N","G","I","N","E"," ","C","O","O","L","E","R">>), FALSE),
     ScanFile(<<"/","d","a","t","a","/","h","u","l","l","2","/","a",".","p","d","f">>, <<"S","T","E","E","R","I","N","G"," ","G","E","A","R"," ","R","O","O","M"," ","A","R","R","A","N","G","E","M","E","N","T">>, WithTitle(<<" "," ">>), FALSE),
     ScanFile(<<"/","d","a","t","a","/","h","u","l","l","2","/","p","u","m","p"," ","m","a","n","u","a","l",".","p","d","f">>, <<" ","\n">>, WithTitle(<<"B","i","l","g","e"," ","p","u","m","p">>), FALSE),
     ScanFile(<<"/","d","a","t","a","/","M","a","n","u","a","l","s","/","c","r","a","n","e",".","d","o","c","x">>, <<"I","n","s","t","r","u","c","t","i","o","n"," ","f","o","r"," ","d","e","c","k"," ","c","r","a","n","e">>, NoMetadata, FALSE),
     ScanFile(<<"/","d","a","t","a","/","h","u","l","l","2","/","n","o","t","e","s",".","d","o","c">>, <<"n","o","t","e","s">>, NoMetadata, FALSE),
     ScanFile(<<"/","d","a","t","a","/","h","u","l","l","2","/","M","(","A",")","-","1","2"," ","M","A","I","N"," ","E","N","G","I","N","E"," ","A","R","R","A","N","G","E","M","E","N","T",".","p","d","f">>, <<>>, NoMetadata, TRUE)}
\* the most files a scanned folder holds
MaxFiles == 2
RECURSIVE FileLists(_)
\* the lists of n different files
FileLists(n) ==
    IF n = 0 THEN {<<>>}
    ELSE {Append(l, f) : l \in FileLists(n - 1), f \in FilePool}
         \ {Append(l, l[j]) : l \in FileLists(n - 1), j \in 1..(n - 1)}
ErrorStatus == <<"E","r","r","o","r",":"," ","c","a","n","n","o","t"," ","r","e","a","d">>
\* lines 147-159: <<content, metadata, status>>
Extract(f, scan_docx) ==
    LET ext == lower[PathSuffix(f.path)]
    IN IF ext = <<".","p","d","f">>
       THEN IF f.fails THEN <<<<>>, NoMetadata, ErrorStatus>>
            ELSE <<f.text, f.metadata, <<"S","u","c","c","e","s","s">>>>
       ELSE IF ext = <<".","d","o","c","x">> /\ scan_docx
       THEN IF f.fails THEN <<<<>>, NoMetadata, ErrorStatus>>
            ELSE <<f.text, NoMetadata, <<"S","u","c","c","e","s","s">>>>
       ELSE IF ext = <<".","d","o","c">> THEN <<<<>>, NoMetadata, <<"S","k","i","p","p","e","d",":"," ",".","d","o","c"," ","r","e","q","u","i","r","e","s"," ","L","i","b","r","e","O","f","f","i","c","e">>>>
       ELSE <<<<>>, NoMetadata, <<"S","k","i","p","p","e","d",":"," ","U","n","s","u","p","p","o","r","t","e","d"," ","f","o","r","m","a","t">>>>
\* the post-processing without the test of line 162
PostProcessUntested(content, status) ==
    IF Contains(status, <<"S","k","i","p","p","e","d">>) THEN <<status, "unsupported">>
    ELSE IF Contains(status, <<"E","r","r","o","r">>) THEN <<status, "error">>
    ELSE <<status, "success">>
\* lines 162-170: <<status, the counter incremented>>
PostProcess(content, status) ==
    IF status = <<"S","u","c","c","e","s","s">> /\ strip[content] = <<>>
    THEN <<<<"S","k","i","p","p","e","d",":"," ","S","c","a","n","n","e","d","/","N","o"," ","T","e","x","t"," ","(","O","C","R"," ","m","i","s","s","i","n","g",")">>, "ocr_missing">>
    ELSE IF Contains(status, <<"S","k","i","p","p","e","d">>) THEN <<status, "unsupported">>
    ELSE IF Contains(status, <<"E","r","r","o","r">>) THEN <<status, "error">>
    ELSE <<status, "success">>
\* type_counts[doc_type] = type_counts.get(doc_type, 0) + 1
Counted(type_counts, doc_type) ==
    IF doc_type \in DOMAIN type_counts
    THEN [type_counts EXCEPT ![doc_type] = @ + 1]
    ELSE [t \in DOMAIN type_counts \cup {doc_type} |->
            IF t = doc_type THEN 1 ELSE type_counts[t]]
\* lines 190-198
ResultRecord(f, doc_type, manual_name, logic, status) ==
    [file_name |-> PathName(f.path),
     relative_path |-> From(f.path, Len(InputFolder) + 2),
     file_type |-> doc_type,
     name |-> manual_name,
     confidence |-> logic.confidence,
     clues |-> logic.clues,
     notes |-> status]

Init ==
    /\ clean = Idle /\ slicer = Idle /\ tok = Idle /\ ident = Idle /\ cls = Idle
    /\ scan = Idle
    /\ SessionInit
\* Start Scan is enabled while scanning is false (line 94), Stop Scan while
\* it is true (line 96); a run of the script that starts no loop has no
\* locals of a loop
\* Start Scan with no folder or a folder that does not exist (lines 103-104)
StartInvalid ==
    /\ scan.pc = "idle"
    /\ ~scanning
    /\ scan' = Idle
    /\ notice' = "Please provide a valid folder path."
    /\ UNCHANGED <<slicer, clean, tok, ident, cls, results, scanning, stop_requested>>
\* Start Scan on a folder without files (lines 106-121)
StartEmpty ==
    /\ scan.pc = "idle"
    /\ ~scanning
    /\ scanning' = FALSE
    /\ stop_requested' = FALSE
    /\ results' = <<>>
    /\ scan' = Idle
    /\ notice' = "No files found in the selected folder."
    /\ UNCHANGED <<slicer, clean, tok, ident, cls>>
\* Start Scan on a folder with files (lines 106-136)
StartScan ==
    /\ scan.pc = "idle"
    /\ ~scanning
    /\ \E n \in 1..MaxFiles, docx \in BOOLEAN :
         \E files \in FileLists(n) :
            scan' = [pc |-> "loop", files_to_scan |-> files, scan_docx |-> docx, idx |-> 1,
                     counts |-> [processed |-> 0, success |-> 0, unsupported |-> 0,
                                 ocr_missing |-> 0, error |-> 0],
                     type_counts |-> <<>>]
    /\ scanning' = TRUE
    /\ stop_requested' = FALSE
    /\ results' = <<>>
    /\ notice' = ""
    /\ UNCHANGED <<slicer, clean, tok, ident, cls>>
\* Stop Scan (lines 98-100)
StopRequest ==
    /\ scanning
    /\ stop_requested' = TRUE
    /\ notice' = "Stop requested. Finishing current file..."
    /\ UNCHANGED <<slicer, clean, tok, ident, cls, scan, results, scanning>>
\* one iteration of the loop on the next file (lines 138-209)
ProcessFile ==
    /\ scan.pc = "loop"
    /\ scan.idx <= Len(scan.files_to_scan)
    /\ ~stop_requested
    /\ LET f == scan.files_to_scan[scan.idx]
           ex == Extract(f, scan.scan_docx)
           post == PostProcess(ex[1], ex[3])
           counts == [scan.counts EXCEPT !.processed = @ + 1, ![post[2]] = @ + 1]
       IN \E manual_name \in {identify_manual_name(ex[1], PathName(f.path),
                                                   PathParent(f.path), ex[2])},
             doc_type \in {classify_doc_type(ex[1], PathName(f.path), PathParent(f.path))} :
            IF manual_name = Hang
            THEN /\ scan' = [scan EXCEPT !.pc = "hang", !.counts = counts]
                 /\ UNCHANGED results
            ELSE /\ scan' = [scan EXCEPT !.idx = @ + 1, !.counts = counts,
                                         !.type_counts = Counted(@, doc_type)]
                 /\ results' = Append(results,
                                      ResultRecord(f, doc_type, manual_name,
                                                   ConfidenceLogic(ex[1], ex[2], manual_name,
                                                                   f.path),
                                                   post[1]))
    /\ UNCHANGED <<slicer, clean, tok, ident, cls, scanning, stop_requested, notice>>
\* the stop test moved below the counter update of line 143
StopObservedLate ==
    /\ scan.pc = "loop"
    /\ scan.idx <= Len(scan.files_to_scan)
    /\ stop_requested
    /\ scan' = [scan EXCEPT !.pc = "idle", !.counts.processed = @ + 1]
    /\ scanning' = FALSE
    /\ notice' = "Scan complete!"
    /\ UNCHANGED <<slicer, clean, tok, ident, cls, results, stop_requested>>
\* the loop finds stop_requested set and ends the scan (lines 139-141, 211-212);
\* the loop's locals keep the values they had at the break
StopObserved ==
    /\ scan.pc = "loop"
    /\ scan.idx <= Len(scan.files_to_scan)
    /\ stop_requested
    /\ scan' = [scan EXCEPT !.pc = "idle"]
    /\ scanning' = FALSE
    /\ notice' = "Scan complete!"
    /\ UNCHANGED <<slicer, clean, tok, ident, cls, results, stop_requested>>
\* the loop has taken every file (lines 211-212)
ScanComplete ==
    /\ scan.pc = "loop"
    /\ scan.idx > Len(scan.files_to_scan)
    /\ scan' = [scan EXCEPT !.pc = "idle"]
    /\ scanning' = FALSE
    /\ notice' = "Scan complete!"
    /\ UNCHANGED <<slicer, clean, tok, ident, cls, results, stop_requested>>
Next ==
    \/ StartInvalid \/ StartEmpty \/ StartScan \/ StopRequest
    \/ ProcessFile \/ StopObserved \/ ScanComplete
Spec == Init /\ [][Next]_vars

(***************************************************************************)
(* Properties                                                              *)
(***************************************************************************)
\* the inputs of the call of identify_manual_name in progress
TryOf(k) == TryStrategy(k, ident.text, ident.filename, ident.folder_path, ident.metadata)
\* the remainder of the filename stem after its drawing number
StemRest == FnClean(FilenameOnly(ident.filename))

\* C1: identify_manual_name returns the result of the lowest-numbered
\* strategy that accepts a candidate: the name returned is the outcome of
\* the strategy it returned from, no earlier strategy has an outcome, and
\* when the filename stem has a drawing number and its remainder has two
\* words of two characters or more and cleans to a name, that name is
\* returned, from strategy 1, whatever the text and the metadata are
C1_StrategyOrder ==
    ident.pc = "returned" =>
        /\ ident.result = TryOf(ident.strategy)
        /\ \A j \in 1..(ident.strategy - 1) : Falsy(TryOf(j))
        /\ (/\ M(DrawingNoRe, FilenameOnly(ident.filename), 1) # 0
            /\ Len(SelectSeq(split[StemRest], LAMBDA w : Len(w) >= 2)) >= 2
            /\ ~Falsy(clean_manual_name[StemRest]))
           => (ident.strategy = 1 /\ ident.result = clean_manual_name[StemRest])
\* a drawing-number filename wins over a text with a TITLE block and a
\* metadata title
C1_Witness ==
    /\ ident.pc = "returned"
    /\ ident.strategy = 1
    /\ ident.filename = <<"M","(","A",")","-","1","2"," ","M","A","I","N"," ","E","N","G","I","N","E"," ","A","R","R","A","N","G","E","M","E","N","T",".","p","d","f">>
    /\ ident.text = <<"D","S","M","E","\n","T","I","T","L","E","\n","V","/","D"," ","O","F"," ","P","R","O","V","I","S","I","O","N"," ","R","E","F","."," ","P","L","A","N","T","\n","D","A","T","E"," ","R","E","V">>
    /\ ident.metadata = WithTitle(<<" ","S","e","w","a","g","e"," ","T","r","e","a","t","m","e","n","t"," ","P","l","a","n","t"," ">>)
    /\ ident.result = <<"M","A","I","N"," ","E","n","g","i","n","e"," ","A","r","r","a","n","g","e","m","e","n","t">>

\* C2: a pass of the loop of clean_manual_name never makes the candidate
\* longer
C2_PassNeverLengthens ==
    [][(clean.pc = "loop" /\ clean'.pc \in {"loop", "post"})
       => Len(clean'.name) <= Len(clean.name)]_vars

\* C3: clean_manual_name applied to a name it returned returns that name
C3_Idempotent ==
    (clean.pc = "done" /\ clean.round = 2) => clean.result = clean.first

\* the spellings of the vendor-drawing prefix
VdVariants == {<<"V","-","D"," ","O","F">>, <<"V",".","D"," ","O","F">>, <<"V"," ","/"," ","D"," ","O","F">>, <<"V","D"," ","O","F">>, <<"V","/","D"," ","O","F">>}
BeginsWithVdPrefix(s) ==
    \E v \in VdVariants : Len(s) > Len(v) + 1 /\ startswith(upper[s], v \o SP)
\* C4: for an input that begins with a vendor-drawing prefix in any of its
\* spellings, followed by title words, the candidate begins with "V/D of"
\* after canonicalization and after every pass, and so does the name
\* returned
C4_VdPrefixKept ==
    BeginsWithVdPrefix(clean.arg) =>
        /\ clean.pc \in {"loop", "post"} => startswith(clean.name, <<"V","/","D"," ","o","f">>)
        /\ clean.pc = "done" => startswith(clean.result, <<"V","/","D"," ","o","f">>)
C4_Witness ==
    /\ clean.pc = "done"
    /\ clean.round = 1
    /\ clean.arg = <<"V",".","D"," ","O","F"," ","P","R","O","V","I","S","I","O","N"," ","R","E","F","."," ","P","L","A","N","T">>
    /\ clean.result = <<"V","/","D"," ","o","f"," ","P","r","o","v","i","s","i","o","n"," ","R","e","f","r","i","g","e","r","a","t","i","n","g","."," ","P","l","a","n","t">>

\* the keyword condition of bucket b on the combined string c
BucketHolds(b, c) ==
    CASE b = 1 -> ContainsAny(c, ManualWords)
      [] b = 2 -> ContainsAny(c, CapacityWords)
      [] b = 3 -> ContainsAny(c, CertificateWords)
      [] b = 4 -> ContainsAny(c, DrawingWords) /\ ~Contains(c, <<"m","a","n","u","a","l">>)
      [] b = 5 -> ContainsAny(c, EquipmentWords) /\ ~Contains(c, <<"m","a","n","u","a","l">>)
      [] b = 6 -> ContainsAny(c, StructureWords)
BucketLabel ==
    <<"Machinery/System Manual", "Capacity Plan / Datasheet", "Certificate / Report",
      "Drawing", "Drawing", "Drawing">>
DocTypes ==
    {"Machinery/System Manual", "Capacity Plan / Datasheet", "Certificate / Report",
     "Drawing", "Unknown"}
\* C5: classify_doc_type, when it returns, returns the label of the first
\* bucket whose keyword condition holds on the lower-cased concatenation
\* of the normalized text, filename and folder basename, "Unknown" when
\* none holds, and so one of the five labels
C5_FirstBucket ==
    (cls.pc = "done" /\ cls.outcome # Raised) =>
        LET c == lower[normalize_text[cls.text] \o SP \o normalize_text[cls.filename] \o SP
                       \o normalize_text[PathName(cls.folder_path)]]
            holds == {b \in 1..6 : BucketHolds(b, c)}
        IN /\ cls.outcome = IF holds = {} THEN "Unknown" ELSE BucketLabel[SetMin(holds)]
           /\ cls.outcome \in DocTypes
\* a text with a certificate keyword and drawing keywords is a report
C5_Witness ==
    /\ cls.pc = "done"
    /\ cls.text = <<"S","e","a"," ","t","r","i","a","l"," ","r","e","p","o","r","t"," ","o","f"," ","t","h","e"," ","s","h","e","l","l"," ","e","x","p","a","n","s","i","o","n"," ","p","l","a","n">>
    /\ cls.filename = <<"x",".","p","d","f">>
    /\ cls.outcome = "Certificate / Report"

\* the text and the metadata extracted from the file of record k
ContentOf(k) == Extract(scan.files_to_scan[k], scan.scan_docx)[1]
MetadataOf(k) == Extract(scan.files_to_scan[k], scan.scan_docx)[2]
HasClue(r, clue) == \E j \in 1..Len(r.clues) : r.clues[j] = clue
CarriesTitle(metadata) == metadata.has_title /\ ~Falsy(metadata.title)
\* the statement of the confidence of record k, the metadata title counting
\* as matched when matched holds
ConfidenceAsStated(k, matched) ==
    /\ results[k].confidence = "High" <=> matched
    /\ ~matched => (results[k].confidence = "Med" <=> strip[ContentOf(k)] # <<>>)
    /\ (~matched /\ strip[ContentOf(k)] = <<>>) => results[k].confidence = "Low"
    /\ HasClue(results[k], "Metadata match") <=> results[k].confidence = "High"
    /\ HasClue(results[k], "Text content") <=> strip[ContentOf(k)] # <<>>
\* C6 as stated: the confidence of a record is "High" exactly when the
\* metadata carries a title whose trimmed, upper-cased form is a substring
\* of the upper-cased name, otherwise "Med" exactly when the text is not
\* blank, otherwise "Low"; "Metadata match" goes with "High" and "Text
\* content" with a text that is not blank
C6_AsStated ==
    scan.pc = "loop" =>
        \A k \in 1..Len(results) :
            ConfidenceAsStated(k,
                CarriesTitle(MetadataOf(k))
                /\ Contains(upper[results[k].name], upper[strip[MetadataOf(k).title]]))
\* C6: the confidence of a record is "High" exactly when the metadata
\* carries a title whose trimmed, upper-cased form is not empty and is a
\* substring of the upper-cased name, otherwise "Med" exactly when the
\* text is not blank, otherwise "Low"; "Metadata match" goes with "High"
\* and "Text content" with a text that is not blank
C6_Confidence ==
    scan.pc = "loop" =>
        \A k \in 1..Len(results) :
            ConfidenceAsStated(k,
                CarriesTitle(MetadataOf(k))
                /\ strip[MetadataOf(k).title] # <<>>
                /\ Contains(upper[results[k].name], upper[strip[MetadataOf(k).title]]))
\* the record of a file with text, the title MAIN ENGINE COOLER and the
\* name Main Engine Cooler has the confidence High
C6_Witness ==
    /\ scan.pc = "loop"
    /\ \E k \in 1..Len(results) :
         /\ strip[ContentOf(k)] # <<>>
         /\ MetadataOf(k) = WithTitle(<<"M","A","I","N"," ","E","N","G","I","N","E"," ","C","O","O","L","E","R">>)
         /\ results[k].name = <<"M","a","i","n"," ","E","n","g","i","n","e"," ","C","o","o","l","e","r">>
         /\ results[k].confidence = "High"
         /\ HasClue(results[k], "Metadata match")

\* C7: classify_doc_type, called with null or empty arguments, returns a
\* label and never raises
C7_NeverRaises == cls.pc = "done" => cls.outcome # Raised

\* the tokens that the first three rules of the token filter take
EarlyTokens == {<<"A","N","D">>, <<"O","F">>, <<"F","O","R">>, <<"I","N">>, <<"E","/","R">>, <<"E","-","R">>, <<"V","/","D">>}
SurvivingTokens == {<<"I","C","C","P">>, <<"M","G","P","S">>, <<"V","/","D">>, <<"E","/","R">>, <<"M","A","I","N">>, <<"A","U","X">>}
\* C8: a step of the token filter drops an all-uppercase token of length 3
\* or 4 that is outside the whitelist and is not PLAN or ROOM, and an
\* alphabetic token of length 3 or more without a vowel that is outside
\* the whitelist, unless one of the first three rules takes the token; it
\* keeps the tokens ICCP, MGPS, V/D, E/R, MAIN and AUX, and it keeps every
\* token that one of the first three rules takes
C8_TokenRules ==
    [][(tok.pc = "loop" /\ tok'.pc = "loop")
       => LET t == tok.toks[tok.i]
              tu == upper[tok.toks[tok.i]]
              whitelist == {<<"M","A","I","N">>, <<"A","U","X">>, <<"E","/","R">>, <<"I","C","C","P">>, <<"M","G","P","S">>, <<"V","/","V">>, <<"V","/","D">>}
              kept == Len(tok'.tokens) = Len(tok.tokens) + 1
                      /\ SubSeq(tok'.tokens, 1, Len(tok.tokens)) = tok.tokens
          IN /\ (/\ tu \notin EarlyTokens
                 /\ isupper(t) /\ Len(t) \in 3..4
                 /\ tu \notin whitelist /\ tu \notin {<<"P","L","A","N">>, <<"R","O","O","M">>})
                => tok'.tokens = tok.tokens
             /\ (/\ tu \notin EarlyTokens
                 /\ Len(t) >= 3 /\ isalpha(t) /\ ~_has_vowel(t)
                 /\ tu \notin whitelist)
                => tok'.tokens = tok.tokens
             /\ t \in SurvivingTokens => (kept /\ tok'.tokens[Len(tok'.tokens)] = t)
             /\ tu \in EarlyTokens
                => (kept /\ tok'.tokens[Len(tok'.tokens)]
                             \in {<<"a","n","d">>, <<"o","f">>, <<"f","o","r">>, <<"i","n">>, <<"E","/","R">>, <<"V","/","D">>})]_vars
\* OLT is dropped and MGPS is kept
C8_Witness ==
    /\ tok.pc = "done"
    /\ tok.s = <<"O","L","T"," ","M","G","P","S">>
    /\ tok.result = <<"M","G","P","S">>

\* C9: a record has the clue "Keyword clue" exactly when the name of the
\* file or the name of its parent folder contains "manual", whatever the
\* case
C9_KeywordClue ==
    scan.pc = "loop" =>
        \A k \in 1..Len(results) :
            HasClue(results[k], "Keyword clue")
            <=> \/ Contains(lower[PathName(scan.files_to_scan[k].path)], <<"m","a","n","u","a","l">>)
                \/ Contains(lower[PathName(PathParent(scan.files_to_scan[k].path))],
                            <<"m","a","n","u","a","l">>)

\* the meaningfulness check as stated
MeaningfulAsStated(s) ==
    \/ startswith(upper[s], <<"V","/","D"," ","O","F">>)
    \/ /\ Len(SelectSeq(split[s], LAMBDA w : Len(w) >= 3)) >= 3
       /\ \/ ContainsAny(upper[s], SYSTEM_KEYWORDS)
          \/ ContainsAny(upper[s], <<<<"P","L","A","N">>, <<"L","I","S","T">>, <<"A","R","R","A","N","G","E","M","E","N","T">>, <<"I","N","S","T","A","L","L","A","T","I","O","N">>, <<"D","O","O","R">>,
                                     <<"I","N","S","U","L","A","T","I","O","N">>, <<"C","R","A","N","E">>, <<"B","E","A","M">>, <<"S","Y","S","T","E","M">>, <<"P","L","A","N","T">>>>)
\* C10: a name that is not empty and that identify_manual_name returns
\* from one of the strategies 3 to 7 passes the meaningfulness check
C10_MeaningfulFrom3To7 ==
    (ident.pc = "returned" /\ ident.strategy \in 3..7 /\ ident.result # <<>>)
        => MeaningfulAsStated(ident.result)
\* the metadata title is returned, from strategy 7
C10_Witness ==
    /\ ident.pc = "returned"
    /\ ident.strategy = 7
    /\ ident.result = <<"S","e","w","a","g","e"," ","T","r","e","a","t","m","e","n","t"," ","P","l","a","n","t">>

(***************************************************************************)
(* _slice_from_first_anchor, called on canonicalized strings               *)
(***************************************************************************)
SliceHeads == <<<<>>, <<"1","2"," ","3","4"," ">>, <<"a","b"," ">>, <<"M","A","I","N"," ","E","N","G","I","N","E"," ","R","O","O","M"," ">>, <<"x","1",":"," ">>, <<"V","/","D"," ","O","F"," ">>, <<"v","/","d"," ","o","f"," ">>,
                <<"F","i","n","a","l"," ","d","r","a","w","i","n","g","s"," ","f","o","r"," ","t","h","e"," ">>, <<"V","/","D"," ">>>>
SliceBodies == <<<<"P","U","M","P">>, <<"C","O","O","L","E","R"," ","U","N","I","T">>, <<"f","a","n"," ","m","o","t","o","r">>, <<"P","u","m","p"," ","l","i","s","t">>, <<"P","R","O","V"," ","S","T","O","R","E">>, <<"E","-","R"," ","C","R","A","N","E">>,
                 <<"A","I","R"," ","C","O","N"," ","S","Y","S","T","E","M">>, <<"o","f","P","U","M","P">>>>
\* the arguments are strings that _normalize_title_terms returned, as in
\* the loop of clean_manual_name
SliceInputs ==
    {_normalize_title_terms[SliceHeads[h] \o SliceBodies[b]] :
        h \in 1..Len(SliceHeads), b \in 1..Len(SliceBodies)}
InitSlice ==
    /\ slicer \in {[pc |-> "call", s |-> s, result |-> <<>>] : s \in SliceInputs}
    /\ clean = Idle /\ tok = Idle /\ ident = Idle /\ cls = Idle /\ scan = Idle
    /\ SessionInit
\* lines 159-181
SliceCall ==
    /\ slicer.pc = "call"
    /\ slicer' = [slicer EXCEPT !.pc = "done", !.result = _slice_from_first_anchor[slicer.s]]
    /\ UNCHANGED <<clean, tok, ident, cls, scan, session>>
NextSlice == SliceCall
SpecSlice == InitSlice /\ [][NextSlice]_vars

\* the least position of an anchor word in the upper-cased string s, 0 when
\* s holds none
EarliestAnchor(s) ==
    LET at == {i \in 1..Len(s) : \E j \in 1..Len(ANCHOR_WORDS) :
                                   MatchesAt(upper[s], ANCHOR_WORDS[j], i)}
    IN IF at = {} THEN 0 ELSE SetMin(at)
\* what the anchor slicer returns for s as stated
SliceAsStated(s) ==
    LET idx == EarliestAnchor(s)
        head == SubSeq(s, 1, idx - 1)
        letters == Cardinality({i \in 1..Len(head) : head[i] \in AlphaSet})
    IN IF startswith(upper[s], <<"V","/","D"," ","O","F">>) \/ idx = 0 THEN s
       ELSE IF letters * 100 < 40 * (IF Len(head) = 0 THEN 1 ELSE Len(head)) \/ Len(head) > 12
       THEN SubSeq(s, idx, Len(s))
       ELSE s
\* C11: the anchor slicer returns its argument unchanged when the argument
\* starts with "V/D OF", whatever the case, or holds no anchor word;
\* otherwise it returns the suffix from the earliest anchor word on when the
\* part before it has an alpha ratio below 0.40 or more than 12 characters,
\* and the argument unchanged when not
C11_SliceFrame ==
    slicer.pc = "done" => slicer.result = SliceAsStated(slicer.s)

\* the loop stands at the start of an iteration with a file left and the flag set
StopSeen ==
    /\ scan.pc = "loop"
    /\ scan.idx <= Len(scan.files_to_scan)
    /\ stop_requested
\* C12: once the loop finds stop_requested set at the start of an iteration it
\* takes no further file of that scan: the step that follows appends no record,
\* changes no counter and leaves the loop with scanning reset to false, keeping
\* the records made so far; an ended scan's records and counters stay as they
\* are until a new scan starts; and while the loop runs every file it has begun
\* has its record, so a stop never falls inside the processing of one file.
C12_StopEndsScan ==
    [][/\ (StopSeen /\ scan' # scan) =>
            /\ results' = results
            /\ scan' = [scan EXCEPT !.pc = "idle"]
            /\ ~scanning'
       /\ (StopSeen /\ scan' = scan) => results' = results /\ scanning'
       /\ (scan.pc = "idle" /\ scan'.pc = "idle") =>
            /\ scan' \in {scan, Idle}
            /\ results' = results \/ (results' = <<>> /\ ~stop_requested')
       /\ scan.pc = "loop" =>
            /\ Len(results) = scan.idx - 1
            /\ scan.counts.processed = scan.idx - 1]_vars
\* a scan of two files was stopped after the first: one record, one file counted
C12_Witness ==
    /\ scan.pc = "idle"
    /\ ~scanning
    /\ stop_requested
    /\ "files_to_scan" \in DOMAIN scan
    /\ Len(scan.files_to_scan) = 2
    /\ scan.idx = 2
    /\ scan.counts.processed = 1
    /\ Len(results) = 1

\* C13: when the lower-cased concatenation of the normalized text, filename
\* and folder basename contains "manual", classify_doc_type returns
\* "Machinery/System Manual"; so a call that returns another label, and with
\* it every call that reaches a Drawing bucket, has a concatenation without
\* "manual".
C13_ManualWins ==
    (cls.pc = "done" /\ cls.folder_path # None) =>
        LET c == Combined(cls.text, cls.filename, cls.folder_path)
        IN /\ Contains(c, <<"m","a","n","u","a","l">>) => cls.outcome = "Machinery/System Manual"
           /\ cls.outcome \in {"Drawing", "Capacity Plan / Datasheet", "Certificate / Report",
                               "Unknown"} => ~Contains(c, <<"m","a","n","u","a","l">>)
\* "manual" comes from the folder name alone, beside words of three other buckets
C13_Witness ==
    /\ cls.pc = "done"
    /\ cls.text = <<"S","e","a"," ","t","r","i","a","l"," ","r","e","p","o","r","t"," ","o","f"," ","t","h","e"," ","s","h","e","l","l"," ","e","x","p","a","n","s","i","o","n"," ","p","l","a","n">>
    /\ cls.filename = <<"a","p","p","r","o","v","a","l"," ","d","r","a","w","i","n","g",".","p","d","f">>
    /\ cls.folder_path = <<"/","d","a","t","a","/","m","a","n","u","a","l","s">>
    /\ cls.outcome = "Machinery/System Manual"

\* the frame holds the locals of a scan whose last iteration has ended
HasCounts == scan.pc \in {"loop", "idle"} /\ "counts" \in DOMAIN scan
\* C14: after every iteration of the scan loop processed is the sum of
\* success, unsupported, ocr_missing and error, the number of records is
\* processed and at most the number of files, and a record with Notes
\* "Success" belongs to a file whose text is not blank and does not have
\* confidence "Low".
C14_CountersAndRecords ==
    HasCounts =>
        /\ scan.counts.processed = scan.counts.success + scan.counts.unsupported
                                     + scan.counts.ocr_missing + scan.counts.error
        /\ Len(results) = scan.counts.processed
        /\ scan.counts.processed <= Len(scan.files_to_scan)
        /\ \A k \in 1..Len(results) :
              results[k].notes = <<"S","u","c","c","e","s","s">> =>
                  /\ strip[ContentOf(k)] # <<>>
                  /\ results[k].confidence # "Low"
\* two files done: one counted a success with its text as a clue, one
\* extracted without text and counted under ocr_missing with confidence Low
C14_Witness ==
    /\ HasCounts
    /\ scan.counts.processed = 2
    /\ scan.counts.success = 1
    /\ scan.counts.ocr_missing = 1
    /\ Len(results) = 2
    /\ \E k \in 1..2 : results[k].notes = <<"S","u","c","c","e","s","s">> /\ results[k].confidence = "Med"
    /\ \E k \in 1..2 : results[k].notes # <<"S","u","c","c","e","s","s">> /\ results[k].confidence = "Low"

====
